---- MODULE Spec2Model ----
(***************************************************************************)
(* Model of the jaegertrace instrumentation adapters: the database cursor  *)
(* wrapper, the Redis connection wrapper, the outbound HTTP adapter, the   *)
(* Celery signal handlers and the RocketMQ producer / consumer wrappers.   *)
(*                                                                         *)
(* One logical unit of execution (a worker thread) issues business calls.  *)
(* A synchronous adapter call is one action.  A RocketMQ consume callback  *)
(* and a Celery task execution are bracketed by a begin and an end action, *)
(* so that other adapter calls nest inside them.  The completion callback  *)
(* of an asynchronous RocketMQ send runs on the broker's thread and is an  *)
(* action of its own.                                                      *)
(*                                                                         *)
(* The tracer is the external collaborator: it hands out span identities   *)
(* and keeps, for every span somebody still holds or that is still open,   *)
(* its name, parent, tags, log events and the number of finish() calls.    *)
(***************************************************************************)
EXTENDS Integers, Sequences, FiniteSets, TLC

VARIABLES
    config,   \* the tracing configuration (settings.TRACING_CONFIG)
    spans,    \* the tracer's spans: identity -> name, parent, tags, logs, finishes
    ctx,      \* the Active-Span Context of the unit: a stack of span identities
    frames,   \* the unit's open consume callbacks, task executions, async send
    msgs,     \* the producer's message objects: properties and _tracing_span
    sends,    \* the completion callbacks registered with the broker
    queue,    \* the task messages published and not yet executed
    last,     \* the business call that has just completed
    tracer,   \* the tracer operation that raises when called, or Healthy
    patches,  \* the attributes install / uninstall assign, per component
    trace_id, \* tracing.trace_id, the attribute enabled_tracing keeps on the tracer
    units     \* the threads calling functions wrapped by enabled_tracing

vars == <<config, spans, ctx, frames, msgs, sends, queue, last, tracer,
          patches, trace_id, units>>

\* what the adapters' own calls leave alone
aside == <<patches, trace_id, units>>

----------------------------------------------------------------------------
(* Bounds of the model *)

\* span identities the tracer can have in use at the same time
MaxSpans == 2
\* asynchronous sends whose completion callback has not run yet
MaxPending == 2
\* published task messages waiting for a worker
MaxQueue == 1

----------------------------------------------------------------------------
(* Text: a Python str is a sequence of one-character strings *)

LowerCase == <<"a","b","c","d","e","f","g","h","i","j","k","l","m",
               "n","o","p","q","r","s","t","u","v","w","x","y","z">>
UpperCase == <<"A","B","C","D","E","F","G","H","I","J","K","L","M",
               "N","O","P","Q","R","S","T","U","V","W","X","Y","Z">>

\* the characters the texts of the model are written in
Alphabet ==
    {LowerCase[i] : i \in DOMAIN LowerCase}
    \cup {UpperCase[i] : i \in DOMAIN UpperCase}
    \cup {" ", "_", "=", "*", "1", "2"}

\* str.upper() on one character
UpperChar ==
    [c \in Alphabet |->
        IF \E i \in DOMAIN LowerCase : LowerCase[i] = c
        THEN UpperCase[CHOOSE i \in DOMAIN LowerCase : LowerCase[i] = c]
        ELSE c]

\* str.upper()
upper(s) == [i \in DOMAIN s |-> UpperChar[s[i]]]

\* Python's  pattern in text  on str
Contains(pattern, text) ==
    \E i \in 0..(Len(text) - Len(pattern)) :
        SubSeq(text, i + 1, i + Len(pattern)) = pattern

\* text[:n]
Truncate(text, n) == SubSeq(text, 1, IF Len(text) < n THEN Len(text) ELSE n)

----------------------------------------------------------------------------
(* Values *)

\* tag values, all of one shape
Str(x)  == [t |-> "str",  s |-> x,  n |-> 0]
Num(x)  == [t |-> "num",  s |-> "", n |-> x]
Bool(b) == [t |-> "bool", s |-> "", n |-> IF b THEN 1 ELSE 0]

NoSpan   == 0
NoParent == [trace |-> 0, span |-> 0]
NoExc    == [cls |-> "", msg |-> ""]
NoRet    == [kind |-> "none"]

SpanIds == 1..MaxSpans

\* what the underlying (wrapped) call does when it is invoked
OutcomeKinds == {"ok", "raise", "cancel"}

\* an Exception subclass raised by the wrapped library
BusinessError == [cls |-> "OperationalError", msg |-> "connection lost"]
\* a BaseException that is not an Exception
Cancellation == [cls |-> "KeyboardInterrupt", msg |-> ""]
\* the interpreter's Exception for a call stack that is too deep
RecursionError ==
    [cls |-> "RecursionError", msg |-> "maximum recursion depth exceeded"]

ExcOf(kind) ==
    CASE kind = "raise"  -> BusinessError
      [] kind = "cancel" -> Cancellation
      [] OTHER           -> NoExc

\* wall-clock milliseconds the underlying call can take
Durations == {50, 150}

----------------------------------------------------------------------------
(* Tracing Configuration *)

\* conf.get_tracing_config(): the component -> options mapping
get_tracing_config == config

\* conf.is_component_enabled(component)
is_component_enabled(component) == get_tracing_config[component].enabled

GetCmd == <<"G","E","T">>
getCmd == <<"g","e","t">>
SetCmd == <<"S","E","T">>
PingCmd == <<"p","i","n","g">>

BaseConfig ==
    [database      |-> [enabled |-> TRUE, log_sql |-> FALSE],
     redis         |-> [enabled |-> TRUE, ignore_commands |-> {},
                        log_commands |-> {}],
     http_requests |-> [enabled |-> TRUE, trace_headers |-> TRUE],
     celery        |-> [enabled |-> TRUE, ignore_tasks |-> {"cleanup"},
                        trace_task_args |-> FALSE, trace_result |-> FALSE],
     rocketmq      |-> [enabled |-> TRUE, ignore_topics |-> {"orders"},
                        trace_message_body |-> FALSE]]

Components == {"database", "redis", "http_requests", "celery", "rocketmq"}

\* the base configuration with one component switched off
Disabled(c) == [BaseConfig EXCEPT ![c].enabled = FALSE]

----------------------------------------------------------------------------
(* Carriers *)

\* conf.TRACE_ID_HEADER: the carrier key the tracer's codec writes and reads
TRACE_ID_HEADER == "trace-id"

\* a dict-valued attribute that may be missing or None: message properties,
\* dispatch headers
NoDict == [state |-> "absent", entries |-> <<>>]
Dict(entries) == [state |-> "dict", entries |-> entries]

\* truthiness of such an attribute: a non-empty dict
NonEmpty(d) == d.state = "dict" /\ DOMAIN d.entries # {}

\* a trace entry that is no span context
Malformed == [trace |-> 0, span |-> 0, raw |-> "garbage"]

\* the context of a span of another process
ForeignContext == [trace |-> 9, span |-> 9]

\* carriers that did not come from this program's producer side: absent,
\* empty, without a trace entry, with a malformed one, with the context of
\* another process's span
ForeignCarriers ==
    {NoDict, Dict(<<>>), Dict(("shard" :> "7")),
     Dict((TRACE_ID_HEADER :> Malformed)),
     Dict((TRACE_ID_HEADER :> ForeignContext))}

\* the span context a carrier encodes, NoParent when it encodes none
CarrierOf(d) ==
    IF d.state = "dict" /\ TRACE_ID_HEADER \in DOMAIN d.entries
    THEN d.entries[TRACE_ID_HEADER]
    ELSE NoParent

----------------------------------------------------------------------------
(* Tracer collaborator: spans *)

\* the tracer works
Healthy == "none"

\* a tracer that does not work: initialize_global_tracer() raises,
\* tracer.start_span raises, span.set_tag raises on every call, span.set_tag
\* raises from the moment the underlying call has been made, span.log_kv
\* raises, tracer.inject raises, tracer.extract raises
TracerFaults ==
    {"initialize_global_tracer", "start_span", "set_tag", "set_tag_after",
     "log_kv", "inject", "extract"}

\* the exception of a failing tracer call
TracerError == [cls |-> "RuntimeError", msg |-> "tracer failure"]

Fails(operation) == tracer = operation

\* the span objects the program's own objects refer to: the context stack,
\* the open consume callbacks and task requests, the _tracing_span attribute
\* of each message, the registered completion callbacks
Held ==
    {ctx[i] : i \in DOMAIN ctx}
    \cup {frames[i].span : i \in DOMAIN frames}
    \cup {msgs[m].span : m \in DOMAIN msgs}
    \cup {sends[i].span : i \in DOMAIN sends}
    \cup UNION {{units[u].stack[i].span : i \in DOMAIN units[u].stack} :
                    u \in DOMAIN units}

\* the carrier an open consume callback or task execution was handed
FrameCarrier(frame) ==
    CASE frame.kind = "task"    -> frame.headers
      [] frame.kind = "consume" -> frame.msg.properties
      [] OTHER                  -> NoDict

\* the span and trace identities written into injected carriers
Carried ==
    UNION {{CarrierOf(msgs[m].properties).span,
            CarrierOf(msgs[m].properties).trace} : m \in DOMAIN msgs}
    \cup UNION {{CarrierOf(queue[i].headers).span,
                  CarrierOf(queue[i].headers).trace} : i \in DOMAIN queue}
    \cup UNION {{CarrierOf(FrameCarrier(frames[i])).span,
                  CarrierOf(FrameCarrier(frames[i])).trace} :
                    i \in DOMAIN frames}
    \cup {trace_id.span, trace_id.trace}
    \cup UNION {UNION {{units[u].stack[i].previous.span,
                         units[u].stack[i].previous.trace,
                         units[u].stack[i].before.span,
                         units[u].stack[i].before.trace} :
                           i \in DOMAIN units[u].stack} : u \in DOMAIN units}
    \cup UNION {{units[u].done.before.span, units[u].done.before.trace} :
                    u \in DOMAIN units}

\* the reporter hands a finished span that nobody holds to the collector, and
\* an open span that nobody holds is garbage: the tracer keeps the held ones
Flush(sp) ==
    LET keep == {i \in DOMAIN sp : i \in Held}
    IN  [i \in keep |-> sp[i]]

\* the span identities some part of the state still mentions
Mentioned(sp) ==
    DOMAIN sp
    \cup {sp[i].parent.span : i \in DOMAIN sp}
    \cup {sp[i].trace : i \in DOMAIN sp}
    \cup Held
    \cup Carried

HasFree(sp) == SpanIds \ Mentioned(sp) # {}

\* the identity the tracer gives the next span
FreshId(sp) ==
    LET free == SpanIds \ Mentioned(sp)
    IN  CHOOSE i \in free : \A j \in free : i <= j

\* the context of a live span, as child_of / inject see it
ContextOf(sp, id) ==
    IF id = NoSpan THEN NoParent ELSE [trace |-> sp[id].trace, span |-> id]

\* tracer.start_span(operation_name, child_of)
start_span(sp, id, name, parent) ==
    (id :> [name     |-> name,
            parent   |-> parent,
            trace    |-> IF parent = NoParent THEN id ELSE parent.trace,
            tags     |-> <<>>,
            logs     |-> <<>>,
            finished |-> 0,
            late     |-> 0]) @@ sp

\* span.set_tag(key, value); late counts the writes made after finish()
set_tag(sp, id, key, value) ==
    [sp EXCEPT ![id].tags = (key :> value) @@ @,
               ![id].late = IF sp[id].finished > 0 THEN @ + 1 ELSE @]

\* span.log_kv(event)
log_kv(sp, id, event) ==
    [sp EXCEPT ![id].logs = Append(@, event),
               ![id].late = IF sp[id].finished > 0 THEN @ + 1 ELSE @]

\* span.finish(): the tracer does not make it idempotent, every call counts
finish(sp, id) == [sp EXCEPT ![id].finished = @ + 1]

\* tracer.inject(span_context, format, carrier): the carrier it fills
inject(sp, id) == (TRACE_ID_HEADER :> ContextOf(sp, id))

\* tracer.extract(format, carrier): the parent context, None without one
extract(entries) ==
    IF TRACE_ID_HEADER \in DOMAIN entries THEN entries[TRACE_ID_HEADER]
    ELSE NoParent

\* tracer.extract raises: the tracer is broken, or the carrier's trace entry
\* cannot be parsed
extract_raises(entries) ==
    \/ Fails("extract")
    \/ /\ TRACE_ID_HEADER \in DOMAIN entries
       /\ entries[TRACE_ID_HEADER] = Malformed

HasTag(sp, id, key) == key \in DOMAIN sp[id].tags

\* the error event every adapter logs for an exception e
ErrorEvent(e) ==
    [event |-> "error", kind |-> e.cls, object |-> e.msg, message |-> e.msg]

----------------------------------------------------------------------------
(* Faulty variants of single steps, used to check that the properties below
   tell a wrong adapter from the right one *)

\* a finally block that forgets span.finish()
finish_forgotten(sp, id) == sp

\* an except block that neither tags nor finishes the span
except_forgotten(sp, id, exc) == sp

\* a DECIDE step that traces whatever it is asked about
always_traced(name) == TRUE

\* a scoped push that forgets to push
push_forgotten(stack, span) == stack

\* an extraction that trusts whatever sits under the trace header
extract_unguarded(properties) ==
    IF properties.state = "dict" /\ TRACE_ID_HEADER \in DOMAIN properties.entries
    THEN properties.entries[TRACE_ID_HEADER]
    ELSE NoParent

----------------------------------------------------------------------------
(* Active-Span Context *)

\* request_context.get_current_span()
get_current_span == IF Len(ctx) = 0 THEN NoSpan ELSE ctx[Len(ctx)]

\* request_context.span_in_context(span): push
span_in_context(stack, span) == Append(stack, span)

\* request_context.span_out_context(), and leaving a  with span_in_context
\* block: pop
span_out_context(stack) ==
    IF Len(stack) = 0 THEN stack ELSE SubSeq(stack, 1, Len(stack) - 1)

----------------------------------------------------------------------------
(* The unit's call stack *)

Top == frames[Len(frames)]

\* the unit is running business code: it has taken the outcome of its last
\* call, it is not inside the underlying call of an asynchronous send and not
\* past the end of a task body
Running ==
    IF last.op # "none" THEN FALSE
    ELSE IF Len(frames) = 0 THEN TRUE
    ELSE IF Top.kind = "task" THEN Top.phase = "running"
    ELSE Top.kind = "consume"

Pop(stack) == SubSeq(stack, 1, Len(stack) - 1)

----------------------------------------------------------------------------
(* The record of the business call that has just completed *)

\* what the underlying call did: returned result, or raised
Out(kind, result) ==
    [kind   |-> kind,
     result |-> IF kind = "ok" THEN result ELSE NoRet,
     exc    |-> ExcOf(kind)]

NotCalled == [kind |-> "none", result |-> NoRet, exc |-> NoExc]

\* own: for a completion callback, the span of the send that registered it.
\* before: the Active-Span Context when the call began.
\* op: the adapter entry point; traced: the DECIDE outcome; span: the span the
\* call opened; argsIn / argsOut: the caller's arguments and those handed to
\* the underlying call; calls: invocations of the underlying call; under: what
\* the underlying call did; ret / raised: what the caller sees; pushes / pops:
\* Active-Span Context operations of the call
Call(op, traced, span, argsIn, argsOut, calls, under, ret, raised, pushes, pops) ==
    [op |-> op, traced |-> traced, span |-> span, own |-> span, before |-> ctx,
     argsIn |-> argsIn, argsOut |-> argsOut, calls |-> calls, under |-> under,
     ret |-> ret, raised |-> raised, pushes |-> pushes, pops |-> pops]

\* a call that went to the underlying call directly
PassThrough(op, args, out) ==
    Call(op, FALSE, NoSpan, args, args, 1, out, out.result, out.exc, 0, 0)

NoCall ==
    [Call("none", FALSE, NoSpan, <<>>, <<>>, 0, NotCalled, NoRet, NoExc, 0, 0)
       EXCEPT !.before = <<>>]


\* a call the adapter gave up before the underlying call: a tracer call that
\* stands outside every try block raised; span is the span already started
Refused(op, args, span) ==
    Call(op, TRUE, span, args, args, 0, NotCalled, NoRet, TracerError, 0, 0)

\* the span as start_span returned it: the first set_tag on it raised
untagged(sp, id) == [sp EXCEPT ![id].tags = <<>>]

\* try: underlying call, tags / except Exception: tag, log, raise.  Is a tracer
\* error what leaves the statement?  tags / logs: the try body calls set_tag /
\* log_kv once the underlying call has returned.  A tracer error of the try
\* body is caught by the except block, whose own set_tag / log_kv raises again;
\* a cancellation is not caught and meets no tracer call
TracerHit(out, tags, logs) ==
    \/ /\ Fails("set_tag_after")
       /\ out.kind = "raise" \/ (out.kind = "ok" /\ tags)
    \/ /\ Fails("log_kv")
       /\ out.kind = "raise" \/ (out.kind = "ok" /\ logs)

\* the except Exception block cut short by a tracer error: set_tag(ERROR) is
\* done when it is log_kv that raises
except_interrupted(sp, id) ==
    IF Fails("log_kv") THEN set_tag(sp, id, "error", Bool(TRUE)) ELSE sp

----------------------------------------------------------------------------
(* Database: TracingCursorWrapper *)

\* the connection the cursor belongs to: db.vendor and db.settings_dict
Db == [vendor |-> "mysql", NAME |-> "app", USER |-> "web",
       HOST |-> "db.internal", PORT |-> 3306]

SqlUpdate   == <<"U","P","D","A","T","E"," ","t"," ","S","E","T"," ","a","=","2">>
SqlPing     == <<"s","e","l","e","c","t"," ","1">>
SqlScenario == <<"S","E","L","E","C","T"," ","1"," ","F","R","O","M"," ","t">>
SqlCatalog  == <<"s","e","l","e","c","t"," ","*"," ","f","r","o","m"," ",
                 "p","g","_","s","t","a","t">>

\* the statements the workload issues, by name
SqlText == [update |-> SqlUpdate, ping |-> SqlPing,
            scenario |-> SqlScenario, catalog |-> SqlCatalog]
SqlNames == DOMAIN SqlText

ParamList == <<"p1", "p2">>
RowCounts == {-1, 2}

skip_patterns ==
    {<<"S","E","L","E","C","T"," ","1">>,
     <<"S","H","O","W"," ","T","A","B","L","E","S">>,
     <<"D","E","S","C","R","I","B","E"," ">>,
     <<"i","n","f","o","r","m","a","t","i","o","n","_","s","c","h","e","m","a">>,
     <<"p","g","_">>}

slow_query_threshold == 100
max_query_length == 1000

\* TracingCursorWrapper._should_trace_query
_should_trace_query(sql) ==
    IF ~is_component_enabled("database")
    THEN FALSE
    ELSE ~(\E pattern \in skip_patterns : Contains(pattern, upper(sql)))

\* TracingCursorWrapper._create_span
Db_create_span(sp, id, sql) ==
    LET s0 == start_span(sp, id, <<"DB_QUERY">>, ContextOf(sp, get_current_span))
        s1 == set_tag(s0, id, "span.kind", Str("client"))
        s2 == set_tag(s1, id, "component", Str("django.db"))
        s3 == set_tag(s2, id, "db.type", Str(Db.vendor))
        s4 == set_tag(s3, id, "db.name", Str(Db.NAME))
        s5 == set_tag(s4, id, "db.user", Str(Db.USER))
        s6 == IF Db.HOST # "" THEN set_tag(s5, id, "peer.ipv4", Str(Db.HOST))
              ELSE s5
        s7 == IF Db.PORT # 0 THEN set_tag(s6, id, "peer.port", Num(Db.PORT))
              ELSE s6
    IN  IF get_tracing_config.database.log_sql
        THEN set_tag(s7, id, "db.statement",
                     [t |-> "text", s |-> "", n |-> 0,
                      x |-> Truncate(sql, max_query_length)])
        ELSE s7

\* the except Exception / finally blocks shared by the synchronous adapters:
\* an Exception is tagged and logged, anything else only passes the finally
except_Exception(sp, id, exc) ==
    IF exc \in {BusinessError, RecursionError}
    THEN log_kv(set_tag(sp, id, "error", Bool(TRUE)), id, ErrorEvent(exc))
    ELSE sp

finally_finish(sp, id) == finish(sp, id)

\* the try body of execute after the underlying call returned
execute_returned(sp, id, dur, rowcount) ==
    LET s1 == set_tag(sp, id, "db.duration_ms", Num(dur))
        s2 == IF dur > slow_query_threshold
              THEN log_kv(set_tag(s1, id, "db.slow_query", Bool(TRUE)), id,
                          [event |-> "slow_query", duration_ms |-> dur,
                           threshold_ms |-> slow_query_threshold])
              ELSE s1
    IN  IF rowcount >= 0
        THEN set_tag(s2, id, "db.rows_affected", Num(rowcount))
        ELSE s2

\* the try body of execute left by a tracer error: a failing log_kv of a slow
\* query comes after the duration and slow-query tags
execute_interrupted(sp, id, kind, dur) ==
    IF kind = "ok" /\ Fails("log_kv")
    THEN set_tag(set_tag(sp, id, "db.duration_ms", Num(dur)),
                 id, "db.slow_query", Bool(TRUE))
    ELSE sp

\* the try body of executemany after the underlying call returned
executemany_returned(sp, id, dur, rowcount, param_list) ==
    LET s1 == set_tag(sp, id, "db.duration_ms", Num(dur))
        s2 == set_tag(s1, id, "db.batch_size", Num(Len(param_list)))
    IN  IF rowcount >= 0
        THEN set_tag(s2, id, "db.rows_affected", Num(rowcount))
        ELSE s2

\* TracingCursorWrapper.execute(sql, params)
execute(q, kind, dur, rowcount) ==
    LET args == <<q, "params">>
        out  == Out(kind, [kind |-> "cursor", rows |-> rowcount])
        sp0  == Flush(spans)
    IN  /\ Running
        /\ IF ~_should_trace_query(SqlText[q])
           THEN /\ spans' = sp0
                /\ last' = PassThrough("execute", args, out)
           ELSE IF Fails("start_span")
           THEN /\ spans' = sp0
                /\ last' = Refused("execute", args, NoSpan)
           ELSE /\ HasFree(sp0)
                /\ \E id \in {FreshId(sp0)} :
                   LET s1  == Db_create_span(sp0, id, SqlText[q])
                       hit == TracerHit(out, TRUE, dur > slow_query_threshold)
                       s2  == IF hit
                              THEN except_interrupted(
                                       execute_interrupted(s1, id, kind, dur), id)
                              ELSE IF kind = "ok"
                              THEN execute_returned(s1, id, dur, rowcount)
                              ELSE except_Exception(s1, id, out.exc)
                   IN  IF Fails("set_tag")
                       THEN /\ spans' = untagged(s1, id)
                            /\ last' = Refused("execute", args, id)
                       ELSE /\ spans' = finally_finish(s2, id)
                            /\ last' = Call("execute", TRUE, id, args, args, 1,
                                            out,
                                            IF hit THEN NoRet ELSE out.result,
                                            IF hit THEN TracerError ELSE out.exc,
                                            0, 0)
        /\ UNCHANGED <<config, tracer, aside, ctx, frames, msgs, sends, queue>>

\* TracingCursorWrapper.executemany(sql, param_list)
executemany(q, kind, dur, rowcount) ==
    LET args == <<q, ParamList>>
        out  == Out(kind, [kind |-> "cursor", rows |-> rowcount])
        sp0  == Flush(spans)
    IN  /\ Running
        /\ IF ~_should_trace_query(SqlText[q])
           THEN /\ spans' = sp0
                /\ last' = PassThrough("executemany", args, out)
           ELSE IF Fails("start_span")
           THEN /\ spans' = sp0
                /\ last' = Refused("executemany", args, NoSpan)
           ELSE /\ HasFree(sp0)
                /\ \E id \in {FreshId(sp0)} :
                   LET s1  == Db_create_span(sp0, id, SqlText[q])
                       hit == TracerHit(out, TRUE, FALSE)
                       s2  == IF hit THEN except_interrupted(s1, id)
                              ELSE IF kind = "ok"
                              THEN executemany_returned(s1, id, dur, rowcount,
                                                        ParamList)
                              ELSE except_Exception(s1, id, out.exc)
                   IN  IF Fails("set_tag")
                       THEN /\ spans' = untagged(s1, id)
                            /\ last' = Refused("executemany", args, id)
                       ELSE /\ spans' = finally_finish(s2, id)
                            /\ last' = Call("executemany", TRUE, id, args, args,
                                            1, out,
                                            IF hit THEN NoRet ELSE out.result,
                                            IF hit THEN TracerError ELSE out.exc,
                                            0, 0)
        /\ UNCHANGED <<config, tracer, aside, ctx, frames, msgs, sends, queue>>

----------------------------------------------------------------------------
(* Redis: TracingRedisConnection *)

\* the wrapped connection's connection_kwargs
connection_kwargs == [host |-> "cache.internal", port |-> 6379, db |-> 0]

\* the positional arguments of the commands the workload issues
RedisArgs ==
    {<<>>, <<GetCmd, "k">>, <<getCmd, "k">>, <<SetCmd, "k", "v">>, <<PingCmd>>}

\* the replies of the underlying connection
RedisResults ==
    {[kind |-> "nil", len |-> 0], [kind |-> "list", len |-> 2],
     [kind |-> "str", len |-> 3], [kind |-> "bytes", len |-> 2]}

max_value_length == 500

\* the commands whose first argument is recorded as the key
KeyCommands ==
    {<<"G","E","T">>, <<"S","E","T">>, <<"D","E","L">>,
     <<"E","X","I","S","T","S">>, <<"H","G","E","T">>, <<"H","S","E","T">>}

\* TracingRedisConnection._should_trace_command
_should_trace_command(command_name) ==
    IF ~is_component_enabled("redis")
    THEN FALSE
    ELSE LET ignore_commands == get_tracing_config.redis.ignore_commands
             log_commands    == get_tracing_config.redis.log_commands
         IN  IF upper(command_name) \in {upper(cmd) : cmd \in ignore_commands}
             THEN FALSE
             ELSE IF log_commands # {}
                  THEN upper(command_name) \in {upper(cmd) : cmd \in log_commands}
                  ELSE TRUE

\* len(str(result)[:max_value_length]): str() of bytes is its repr, b'...'
ResultSize(result) ==
    LET n == IF result.kind = "bytes" THEN result.len + 3 ELSE result.len
    IN  IF n < max_value_length THEN n ELSE max_value_length

\* TracingRedisConnection._create_span(command_name, args)
Redis_create_span(sp, id, command_name, args) ==
    LET s0 == start_span(sp, id, <<"REDIS">> \o upper(command_name),
                         ContextOf(sp, get_current_span))
        s1 == set_tag(s0, id, "span.kind", Str("client"))
        s2 == set_tag(s1, id, "component", Str("redis"))
        s3 == set_tag(s2, id, "db.type", Str("redis"))
        s4 == set_tag(s3, id, "db.redis.command",
                      [t |-> "text", s |-> "", n |-> 0, x |-> upper(command_name)])
        s5 == set_tag(s4, id, "peer.ipv4", Str(connection_kwargs.host))
        s6 == set_tag(s5, id, "peer.port", Num(connection_kwargs.port))
        s7 == set_tag(s6, id, "db.redis.database_index", Num(connection_kwargs.db))
    IN  IF Len(args) > 0
        THEN LET s8 == set_tag(s7, id, "db.redis.args_count", Num(Len(args)))
             IN  IF upper(command_name) \in KeyCommands
                 THEN set_tag(s8, id, "db.redis.key", Str(args[1]))
                 ELSE s8
        ELSE s7

\* the try body of execute_command after the underlying call returned
execute_command_returned(sp, id, dur, result) ==
    LET s1 == set_tag(sp, id, "db.redis.duration_ms", Num(dur))
    IN  CASE result.kind = "list" ->
                 set_tag(s1, id, "db.redis.result_length", Num(result.len))
          [] result.kind \in {"str", "bytes"} ->
                 set_tag(s1, id, "db.redis.result_size", Num(ResultSize(result)))
          [] OTHER -> s1

\* TracingRedisConnection.execute_command(*args, **kwargs)
execute_command(args, kind, dur, result) ==
    LET out == Out(kind, result)
        sp0 == Flush(spans)
    IN  /\ Running
        /\ IF args = <<>>
           THEN /\ spans' = sp0
                /\ last' = PassThrough("execute_command", args, out)
           ELSE IF ~_should_trace_command(args[1])
           THEN /\ spans' = sp0
                /\ last' = PassThrough("execute_command", args, out)
           ELSE IF Fails("start_span")
           THEN /\ spans' = sp0
                /\ last' = Refused("execute_command", args, NoSpan)
           ELSE /\ HasFree(sp0)
                /\ \E id \in {FreshId(sp0)} :
                   LET s1  == Redis_create_span(sp0, id, args[1], Tail(args))
                       hit == TracerHit(out, TRUE, FALSE)
                       s2  == IF hit THEN except_interrupted(s1, id)
                              ELSE IF kind = "ok"
                              THEN execute_command_returned(s1, id, dur, result)
                              ELSE except_Exception(s1, id, out.exc)
                   IN  IF Fails("set_tag")
                       THEN /\ spans' = untagged(s1, id)
                            /\ last' = Refused("execute_command", args, id)
                       ELSE /\ spans' = finally_finish(s2, id)
                            /\ last' = Call("execute_command", TRUE, id, args,
                                            args, 1, out,
                                            IF hit THEN NoRet ELSE out.result,
                                            IF hit THEN TracerError ELSE out.exc,
                                            0, 0)
        /\ UNCHANGED <<config, tracer, aside, ctx, frames, msgs, sends, queue>>

NilReply == [kind |-> "nil", len |-> 0]

\* what the underlying connection does
RedisRuns ==
    {[kind |-> "ok", dur |-> d, result |-> r] :
        d \in Durations, r \in RedisResults}
    \cup {[kind |-> k, dur |-> 0, result |-> NilReply] : k \in {"raise", "cancel"}}

RedisExecuteCommand ==
    \E args \in RedisArgs, run \in RedisRuns :
        execute_command(args, run.kind, run.dur, run.result)

----------------------------------------------------------------------------
(* Outbound HTTP: TracingHTTPAdapter *)

\* the prepared requests of the workload: url is what parse_url makes of it
Requests ==
    {[method |-> "GET",
      url |-> [host |-> "x", port |-> 0, path |-> "/y"],
      headers |-> ("accept" :> "json"), body |-> 0],
     [method |-> "POST",
      url |-> [host |-> "api.internal", port |-> 8080, path |-> ""],
      headers |-> <<>>, body |-> 12]}

\* the responses of the underlying transport
Responses == {[status_code |-> 200, size |-> 7], [status_code |-> 404, size |-> 0]}

\* requests.Response.__bool__: the response is truthy when it is ok
Truthy(response) == response.status_code < 400

\* TracingHTTPAdapter._create_span(request)
Http_create_span(sp, id, request) ==
    LET path == IF request.url.path # "" THEN request.url.path ELSE "/"
        s0 == start_span(sp, id, <<request.method, path>>,
                         ContextOf(sp, get_current_span))
        s1 == set_tag(s0, id, "span.kind", Str("client"))
        s2 == set_tag(s1, id, "http.url",
                      [t |-> "url", s |-> "", n |-> 0, x |-> request.url])
        s3 == set_tag(s2, id, "http.method", Str(request.method))
        s4 == set_tag(s3, id, "component", Str("requests"))
        s5 == IF request.url.host # ""
              THEN set_tag(s4, id, "peer.ipv4", Str(request.url.host)) ELSE s4
        s6 == IF request.url.port # 0
              THEN set_tag(s5, id, "peer.port", Num(request.url.port)) ELSE s5
    IN  IF request.body # 0
        THEN set_tag(s6, id, "http.request_size", Num(request.body))
        ELSE s6

\* TracingHTTPAdapter._inject_headers(request, span): the request's headers
_inject_headers(sp, id, request) ==
    IF ~get_tracing_config.http_requests.trace_headers
    THEN request
    ELSE IF Fails("inject")
    THEN request
    ELSE [request EXCEPT !.headers = inject(sp, id) @@ @]

\* the try body of send after the underlying send returned
send_returned(sp, id, dur, response) ==
    IF Truthy(response)
    THEN LET s1 == set_tag(sp, id, "http.status_code", Num(response.status_code))
             s2 == set_tag(s1, id, "http.response_size", Num(response.size))
             s3 == set_tag(s2, id, "http.duration_ms", Num(dur))
         IN  IF response.status_code >= 400
             THEN set_tag(s3, id, "error", Bool(TRUE))
             ELSE s3
    ELSE sp

\* TracingHTTPAdapter.send(request, **kwargs)
send(request, kind, dur, response) ==
    LET args == <<request, "kwargs">>
        out  == Out(kind, response)
        sp0  == Flush(spans)
    IN  /\ Running
        /\ IF ~is_component_enabled("http_requests")
           THEN /\ spans' = sp0
                /\ last' = PassThrough("send", args, out)
           ELSE IF Fails("start_span")
           THEN /\ spans' = sp0
                /\ last' = Refused("send", args, NoSpan)
           ELSE /\ HasFree(sp0)
                /\ \E id \in {FreshId(sp0)} :
                   LET s1   == Http_create_span(sp0, id, request)
                       sent == _inject_headers(s1, id, request)
                       hit  == TracerHit(out, Truthy(response), FALSE)
                       s2   == IF hit THEN except_interrupted(s1, id)
                               ELSE IF kind = "ok"
                               THEN send_returned(s1, id, dur, response)
                               ELSE except_Exception(s1, id, out.exc)
                   IN  IF Fails("set_tag")
                       THEN /\ spans' = untagged(s1, id)
                            /\ last' = Refused("send", args, id)
                       ELSE /\ spans' = finally_finish(s2, id)
                            /\ last' = Call("send", TRUE, id, args,
                                            <<sent, "kwargs">>, 1, out,
                                            IF hit THEN NoRet ELSE out.result,
                                            IF hit THEN TracerError ELSE out.exc,
                                            0, 0)
        /\ UNCHANGED <<config, tracer, aside, ctx, frames, msgs, sends, queue>>

\* what the underlying transport does
HttpRuns ==
    {[kind |-> "ok", dur |-> d, response |-> r] :
        d \in Durations, r \in Responses}
    \cup {[kind |-> k, dur |-> 0, response |-> [status_code |-> 0, size |-> 0]] :
            k \in {"raise", "cancel"}}

HttpSend ==
    \E request \in Requests, run \in HttpRuns :
        send(request, run.kind, run.dur, run.response)

\* what the underlying cursor does: it returns after dur ms leaving rowcount,
\* or it raises
DbRuns ==
    {[kind |-> "ok", dur |-> d, rowcount |-> r] :
        d \in Durations, r \in RowCounts}
    \cup {[kind |-> k, dur |-> 0, rowcount |-> -1] : k \in {"raise", "cancel"}}

DbExecute ==
    \E q \in SqlNames, run \in DbRuns :
        execute(q, run.kind, run.dur, run.rowcount)

DbExecuteMany ==
    \E q \in SqlNames, run \in DbRuns :
        executemany(q, run.kind, run.dur, run.rowcount)

----------------------------------------------------------------------------
(* RocketMQ: RocketMQInstrumentation *)

\* the producer's message objects and what the application put in them
MsgAttrs ==
    [m1 |-> [topic |-> "orders",   tags |-> "",     keys |-> "",   body |-> 0],
     m2 |-> [topic |-> "payments", tags |-> "paid", keys |-> "k9", body |-> 5]]
MsgIds == DOMAIN MsgAttrs

\* the messages as the application built them: no _tracing_span attribute
NewMsgs ==
    [m1 |-> [properties |-> Dict(("shard" :> "7")), span |-> NoSpan],
     m2 |-> [properties |-> NoDict, span |-> NoSpan]]

\* the application's completion callbacks: on_done, or None
UserCallbacks == {[fn |-> "on_done", traced |-> FALSE],
                  [fn |-> "", traced |-> FALSE]}

\* the traced_callback closure over msg and callback
traced_callback_of(callback) == [callback EXCEPT !.traced = TRUE]

\* the broker's send results
SendStatuses == {0, 1}
SendResult(status) == [kind |-> "send_result", status |-> status, msg_id |-> "id-1"]
NoneResult == [kind |-> "None"]

max_message_size == 1024

\* RocketMQInstrumentation._should_trace_topic
_should_trace_topic(topic) ==
    topic \notin get_tracing_config.rocketmq.ignore_topics

\* the message tags shared by the send and the consume span
Rmq_message_tags(sp, id, m) ==
    LET a  == MsgAttrs[m]
        s1 == IF a.tags # "" THEN set_tag(sp, id, "rocketmq.tags", Str(a.tags))
              ELSE sp
        s2 == IF a.keys # "" THEN set_tag(s1, id, "rocketmq.keys", Str(a.keys))
              ELSE s1
    IN  IF a.body # 0
        THEN LET s3 == set_tag(s2, id, "rocketmq.body_size", Num(a.body))
             IN  IF get_tracing_config.rocketmq.trace_message_body
                    /\ a.body <= max_message_size
                 THEN set_tag(s3, id, "rocketmq.body", Str("body"))
                 ELSE s3
        ELSE s2

\* _trace_send_message: the span of a send and its tags
send_create_span(sp, id, m, operation) ==
    LET topic == MsgAttrs[m].topic
        s0 == start_span(sp, id, <<"SEND", topic>>,
                         ContextOf(sp, get_current_span))
        s1 == set_tag(s0, id, "span.kind", Str("producer"))
        s2 == set_tag(s1, id, "component", Str("rocketmq"))
        s3 == set_tag(s2, id, "message_bus.destination", Str(topic))
        s4 == set_tag(s3, id, "rocketmq.operation", Str(operation))
        s5 == set_tag(s4, id, "rocketmq.topic", Str(topic))
    IN  Rmq_message_tags(s5, id, m)

\* _trace_send_message: inject the context into msg.properties and store the
\* span on the message
send_inject(sp, id, msg) ==
    [properties |->
        IF Fails("inject") THEN msg.properties
        ELSE Dict(inject(sp, id) @@
                  (IF msg.properties.state = "dict" THEN msg.properties.entries
                   ELSE <<>>)),
     span |-> id]

\* _trace_send_message: the try body after the underlying send returned
send_message_returned(sp, id, operation, dur, result) ==
    LET s1 == set_tag(sp, id, "rocketmq.duration_ms", Num(dur))
    IN  CASE operation = "send_sync" ->
                 finish(
                     IF result.kind = "send_result"
                     THEN IF result.status = 0
                          THEN set_tag(set_tag(s1, id, "rocketmq.send_status",
                                               Str("success")),
                                       id, "rocketmq.msg_id", Str(result.msg_id))
                          ELSE set_tag(set_tag(s1, id, "rocketmq.send_status",
                                               Str("failed")),
                                       id, "error", Bool(TRUE))
                     ELSE s1, id)
          [] operation = "send_oneway" ->
                 finish(set_tag(s1, id, "rocketmq.send_status", Str("oneway")), id)
          [] OTHER -> s1

\* _trace_send_message: except Exception
send_message_except(sp, id, exc) ==
    IF exc = BusinessError
    THEN finish(log_kv(set_tag(sp, id, "error", Bool(TRUE)), id, ErrorEvent(exc)),
                id)
    ELSE sp

\* _trace_send_message for an underlying method that returns or raises at
\* once: send_sync, send_oneway, and a send_async that raises
_trace_send_message(m, operation, extra, passed, kind, dur, result) ==
    LET argsIn  == <<m, msgs[m]>> \o extra
        out     == Out(kind, result)
        sp0     == Flush(spans)
    IN  /\ Running
        /\ IF ~_should_trace_topic(MsgAttrs[m].topic)
           THEN /\ spans' = sp0
                /\ msgs' = msgs
                /\ last' = Call(operation, FALSE, NoSpan, argsIn,
                                <<m, msgs[m]>> \o passed, 1, out,
                                out.result, out.exc, 0, 0)
           ELSE IF Fails("initialize_global_tracer") \/ Fails("start_span")
           THEN /\ spans' = sp0
                /\ msgs' = msgs
                /\ last' = Refused(operation, argsIn, NoSpan)
           ELSE /\ HasFree(sp0)
                /\ \E id \in {FreshId(sp0)} :
                   LET s1  == send_create_span(sp0, id, m, operation)
                       msg == send_inject(s1, id, msgs[m])
                       hit == TracerHit(out, TRUE, FALSE)
                       s2  == IF hit THEN except_interrupted(s1, id)
                              ELSE IF kind = "ok"
                              THEN send_message_returned(s1, id, operation, dur,
                                                         result)
                              ELSE send_message_except(s1, id, out.exc)
                   IN  IF Fails("set_tag")
                       THEN /\ spans' = untagged(s1, id)
                            /\ msgs' = msgs
                            /\ last' = Refused(operation, argsIn, id)
                       ELSE /\ spans' = s2
                            /\ msgs' = [msgs EXCEPT ![m] = msg]
                            /\ last' = Call(operation, TRUE, id, argsIn,
                                            <<m, msg>> \o passed, 1, out,
                                            IF hit THEN NoRet ELSE out.result,
                                            IF hit THEN TracerError ELSE out.exc,
                                            0, 0)

\* Producer.send_sync(msg, timeout) as patched: traced_send_sync
traced_send_sync(m, kind, dur, status) ==
    /\ _trace_send_message(m, "send_sync", <<"timeout">>, <<"timeout">>,
                           kind, dur, SendResult(status))
    /\ UNCHANGED <<config, tracer, aside, ctx, frames, sends, queue>>

\* Producer.send_oneway(msg) as patched: traced_send_oneway
traced_send_oneway(m, kind, dur) ==
    /\ _trace_send_message(m, "send_oneway", <<>>, <<>>, kind, dur, NoneResult)
    /\ UNCHANGED <<config, tracer, aside, ctx, frames, sends, queue>>

\* the completion callback the broker holds for an accepted send_async
Registered(m, callback, span) == [msg |-> m, callback |-> callback, span |-> span]

\* Producer.send_async(msg, callback, timeout) as patched: traced_send_async,
\* up to the point where the underlying send_async has accepted the message
\* (or has raised)
traced_send_async(m, callback, kind) ==
    LET extra  == <<callback, "timeout">>
        passed == <<traced_callback_of(callback), "timeout">>
    IN  IF kind # "ok"
        THEN /\ _trace_send_message(m, "send_async", extra, passed, kind, 0,
                                    NoneResult)
             /\ UNCHANGED <<config, tracer, aside, ctx, frames, sends, queue>>
        ELSE /\ Running
             /\ Len(sends) < MaxPending
             /\ LET sp0 == Flush(spans)
                IN  IF ~_should_trace_topic(MsgAttrs[m].topic)
                    THEN /\ spans' = sp0
                         /\ msgs' = msgs
                         /\ frames' = frames
                         /\ sends' = Append(sends, Registered(m, callback, NoSpan))
                         /\ last' = Call("send_async", FALSE, NoSpan,
                                         <<m, msgs[m]>> \o extra,
                                         <<m, msgs[m]>> \o passed, 1,
                                         Out("ok", NoneResult), NoneResult,
                                         NoExc, 0, 0)
                    ELSE IF Fails("initialize_global_tracer")
                            \/ Fails("start_span")
                    THEN /\ spans' = sp0
                         /\ msgs' = msgs
                         /\ frames' = frames
                         /\ sends' = sends
                         /\ last' = Refused("send_async",
                                            <<m, msgs[m]>> \o extra, NoSpan)
                    ELSE /\ HasFree(sp0)
                         /\ \E id \in {FreshId(sp0)} :
                            LET s1  == send_create_span(sp0, id, m, "send_async")
                                msg == send_inject(s1, id, msgs[m])
                            IN  IF Fails("set_tag")
                                THEN /\ spans' = untagged(s1, id)
                                     /\ msgs' = msgs
                                     /\ frames' = frames
                                     /\ sends' = sends
                                     /\ last' = Refused("send_async",
                                                   <<m, msgs[m]>> \o extra, id)
                                ELSE /\ spans' = s1
                                     /\ msgs' = [msgs EXCEPT ![m] = msg]
                                     /\ frames' = Append(frames,
                                            [kind |-> "send_async", span |-> id,
                                             argsIn |-> <<m, msgs[m]>> \o extra,
                                             argsOut |-> <<m, msg>> \o passed])
                                     /\ sends' = Append(sends,
                                                    Registered(m, callback, id))
                                     /\ last' = NoCall
             /\ UNCHANGED <<config, tracer, aside, ctx, queue>>

\* traced send_async: the underlying send_async returns to _trace_send_message
send_async_returns(dur) ==
    /\ last.op = "none"
    /\ Len(frames) > 0
    /\ Top.kind = "send_async"
    /\ spans' = IF Fails("set_tag_after") THEN spans
                ELSE send_message_returned(spans, Top.span, "send_async", dur,
                                           NoneResult)
    /\ frames' = Pop(frames)
    /\ last' = Call("send_async", TRUE, Top.span, Top.argsIn, Top.argsOut, 1,
                    Out("ok", NoneResult),
                    IF Fails("set_tag_after") THEN NoRet ELSE NoneResult,
                    IF Fails("set_tag_after") THEN TracerError ELSE NoExc,
                    0, 0)
    /\ UNCHANGED <<config, tracer, aside, ctx, msgs, sends, queue>>

Remove(seq, i) == SubSeq(seq, 1, i - 1) \o SubSeq(seq, i + 1, Len(seq))

\* traced_callback: what the closure does to the span it finds on the message
traced_callback_span(sp, id, result) ==
    finish(IF result.status = 0
           THEN set_tag(set_tag(sp, id, "rocketmq.send_status", Str("failed")),
                        id, "error", Bool(TRUE))
           ELSE sp, id)

\* traced_callback(result): the broker completes the i-th registered send
traced_callback(i, status) ==
    LET reg    == sends[i]
        result == SendResult(status)
        span   == msgs[reg.msg].span
        sp0    == Flush(spans)
        \* set_tag raises in the closure: neither finish() nor callback(result)
        hit    == span # NoSpan /\ result.status = 0 /\ Fails("set_tag_after")
        called == IF reg.callback.fn # "" /\ ~hit THEN 1 ELSE 0
    IN  /\ last.op = "none"
        /\ spans' = IF span # NoSpan /\ ~hit
                    THEN traced_callback_span(sp0, span, result)
                    ELSE sp0
        /\ sends' = Remove(sends, i)
        /\ last' = [Call("traced_callback", span # NoSpan, span, <<result>>,
                         <<result>>, called, NotCalled, NoRet,
                         IF hit THEN TracerError ELSE NoExc, 0, 0)
                      EXCEPT !.own = reg.span]
        /\ UNCHANGED <<config, tracer, aside, ctx, frames, msgs, queue>>

\* the message a consumer is handed: what the producer's message carried
Delivered(m) == [msg |-> m, properties |-> msgs[m].properties]

\* _trace_consume_message: the parent context extracted from msg.properties
consume_extract(properties) ==
    IF NonEmpty(properties) /\ ~extract_raises(properties.entries)
    THEN extract(properties.entries)
    ELSE NoParent

\* _trace_consume_message: the span of a consume and its tags
consume_create_span(sp, id, m, parent_context) ==
    LET topic == MsgAttrs[m].topic
        s0 == start_span(sp, id, <<"RECEIVE", topic>>, parent_context)
        s1 == set_tag(s0, id, "span.kind", Str("consumer"))
        s2 == set_tag(s1, id, "component", Str("rocketmq"))
        s3 == set_tag(s2, id, "message_bus.destination", Str(topic))
        s4 == set_tag(s3, id, "rocketmq.topic", Str(topic))
        s5 == set_tag(s4, id, "rocketmq.msg_id", Str("id-1"))
        s6 == set_tag(s5, id, "rocketmq.queue_id", Num(0))
        s7 == set_tag(s6, id, "rocketmq.born_timestamp", Num(0))
    IN  Rmq_message_tags(s7, id, m)

\* _trace_consume_message: after the  with  block
consume_returned(sp, id, dur) ==
    set_tag(set_tag(sp, id, "rocketmq.processing_duration_ms", Num(dur)),
            id, "rocketmq.consume_status", Str("success"))

\* _trace_consume_message: except Exception
consume_except(sp, id, exc) ==
    IF exc = BusinessError
    THEN log_kv(set_tag(set_tag(sp, id, "error", Bool(TRUE)),
                        id, "rocketmq.consume_status", Str("failed")),
                id, ErrorEvent(exc))
    ELSE sp

\* _trace_consume_message: except Exception cut short by a tracer error
consume_except_interrupted(sp, id) ==
    IF Fails("log_kv")
    THEN set_tag(set_tag(sp, id, "error", Bool(TRUE)),
                 id, "rocketmq.consume_status", Str("failed"))
    ELSE sp

\* _trace_consume_message(msg, original_callback) up to the call of the
\* application's callback inside  with span_in_context(span)
consume_begin(msg) ==
    LET sp0 == Flush(spans)
        m   == msg.msg
    IN  /\ Running
        /\ _should_trace_topic(MsgAttrs[m].topic)
        /\ Len(frames) = 0
        /\ IF Fails("initialize_global_tracer") \/ Fails("start_span")
           THEN /\ spans' = sp0
                /\ ctx' = ctx
                /\ frames' = frames
                /\ last' = Refused("consume", <<msg>>, NoSpan)
           ELSE /\ HasFree(sp0)
                /\ \E id \in {FreshId(sp0)} :
                   LET s1 == consume_create_span(sp0, id, m,
                                     consume_extract(msg.properties))
                   IN  IF Fails("set_tag")
                       THEN /\ spans' = untagged(s1, id)
                            /\ ctx' = ctx
                            /\ frames' = frames
                            /\ last' = Refused("consume", <<msg>>, id)
                       ELSE /\ spans' = s1
                            /\ ctx' = span_in_context(ctx, id)
                            /\ frames' = Append(frames,
                                   [kind |-> "consume", span |-> id,
                                    msg |-> msg, entered |-> ctx])
                            /\ last' = NoCall
        /\ UNCHANGED <<config, tracer, aside, msgs, sends, queue>>

\* _trace_consume_message from the return (or raise) of the application's
\* callback to its own return
consume_end(kind, dur) ==
    LET id  == Top.span
        out == Out(kind, [kind |-> "consume_status", status |-> 0])
        hit == TracerHit(out, TRUE, FALSE)
        s1  == IF hit THEN consume_except_interrupted(spans, id)
               ELSE IF kind = "ok" THEN consume_returned(spans, id, dur)
               ELSE consume_except(spans, id, out.exc)
    IN  /\ last.op = "none"
        /\ Len(frames) > 0
        /\ Top.kind = "consume"
        /\ ctx' = span_out_context(ctx)
        /\ spans' = finally_finish(s1, id)
        /\ frames' = Pop(frames)
        /\ last' = [Call("consume", TRUE, id, <<Top.msg>>, <<Top.msg>>, 1, out,
                         IF hit THEN NoRet ELSE out.result,
                         IF hit THEN TracerError ELSE out.exc, 1, 1)
                      EXCEPT !.before = Top.entered]
        /\ UNCHANGED <<config, tracer, aside, msgs, sends, queue>>

\* _trace_consume_message for a topic that is not traced
consume_untraced(m, kind) ==
    LET msg == Delivered(m)
        out == Out(kind, [kind |-> "consume_status", status |-> 0])
    IN  /\ Running
        /\ ~_should_trace_topic(MsgAttrs[m].topic)
        /\ spans' = Flush(spans)
        /\ last' = PassThrough("consume", <<msg>>, out)
        /\ UNCHANGED <<config, tracer, aside, ctx, frames, msgs, sends, queue>>

\* wall-clock milliseconds of a send or of a callback
Latencies == {50}

RmqSendSync ==
    \E m \in MsgIds, kind \in OutcomeKinds, dur \in Latencies,
       status \in SendStatuses :
        /\ kind # "ok" => status = 0
        /\ traced_send_sync(m, kind, dur, status)

RmqSendOneway ==
    \E m \in MsgIds, kind \in OutcomeKinds, dur \in Latencies :
        traced_send_oneway(m, kind, dur)

RmqSendAsync ==
    \E m \in MsgIds, callback \in UserCallbacks, kind \in OutcomeKinds :
        traced_send_async(m, callback, kind)

RmqSendAsyncReturns == \E dur \in Latencies : send_async_returns(dur)

RmqCompletion ==
    \E i \in DOMAIN sends, status \in SendStatuses : traced_callback(i, status)

RmqConsumeBegin == \E m \in MsgIds : consume_begin(Delivered(m))

\* a message from a producer outside this program: whatever it carries
RmqConsumeForeign ==
    \E m \in MsgIds, properties \in ForeignCarriers :
        consume_begin([msg |-> m, properties |-> properties])

RmqConsumeEnd ==
    \E kind \in OutcomeKinds, dur \in Latencies : consume_end(kind, dur)

RmqConsumeUntraced ==
    \E m \in MsgIds, kind \in OutcomeKinds : consume_untraced(m, kind)

----------------------------------------------------------------------------
(* Celery: CeleryInstrumentation *)

TaskNames == {"cleanup", "send_email"}

\* the **options of an apply_async call: without headers and task_id, or with
\* the caller's own
DispatchOptions ==
    {[headers |-> NoDict, task_id |-> ""],
     [headers |-> Dict(("x-app" :> "1")), task_id |-> "t-7"]}

\* the positional and keyword arguments of a task
TaskArguments ==
    {[args |-> <<>>, kwargs |-> <<>>],
     [args |-> <<"a", "b">>, kwargs |-> ("k" :> "v")]}

AsyncResult == [kind |-> "async_result", id |-> "t-7"]
TaskResults == {NoRet, [kind |-> "int"]}

\* the state argument of task_postrun; NoState when the sender passes none
NoState == ""
\* what span.finish() or a tag computation can do inside the postrun handler:
\* nothing wrong, set_tag raises, finish raises before it records the span
PostrunFaults == {"none", "set_tag", "finish"}
_should_trace_task(task_name) ==
    task_name \notin get_tracing_config.celery.ignore_tasks

\* the PUBLISH span of a dispatch, child of the current span
publish_create_span(sp, id, task, options) ==
    LET s0 == start_span(sp, id, <<"PUBLISH", task>>,
                         ContextOf(sp, get_current_span))
        s1 == set_tag(s0, id, "span.kind", Str("producer"))
        s2 == set_tag(s1, id, "component", Str("celery"))
        s3 == set_tag(s2, id, "celery.task_name", Str(task))
    IN  set_tag(s3, id, "celery.task_id", Str(options.task_id))

\* headers.update(carrier); options["headers"] = headers
publish_inject(sp, id, options) ==
    IF Fails("inject") THEN options
    ELSE [options EXCEPT !.headers = Dict(inject(sp, id) @@ @.entries)]

\* the task message the original apply_async puts on the broker
Published(task, options) == [task |-> task, headers |-> options.headers]

\* _inject_trace_context(task, original_method, args, kwargs, **options)
_inject_trace_context(task, options, kind) ==
    LET args == <<task, options>>
        out  == Out(kind, AsyncResult)
        sp0  == Flush(spans)
    IN  /\ Running
        /\ kind = "ok" => Len(queue) < MaxQueue
        /\ IF ~_should_trace_task(task)
           THEN /\ spans' = sp0
                /\ queue' = IF kind = "ok"
                            THEN Append(queue, Published(task, options))
                            ELSE queue
                /\ last' = PassThrough("apply_async", args, out)
           ELSE IF Fails("initialize_global_tracer")
           THEN /\ spans' = sp0
                /\ queue' = queue
                /\ last' = Refused("apply_async", args, NoSpan)
           ELSE IF get_current_span = NoSpan
           THEN /\ spans' = sp0
                /\ queue' = IF kind = "ok"
                            THEN Append(queue, Published(task, options))
                            ELSE queue
                /\ last' = PassThrough("apply_async", args, out)
           ELSE IF Fails("start_span")
           THEN /\ spans' = sp0
                /\ queue' = queue
                /\ last' = Refused("apply_async", args, NoSpan)
           ELSE /\ HasFree(sp0)
                /\ \E id \in {FreshId(sp0)} :
                   LET s1   == publish_create_span(sp0, id, task, options)
                       sent == publish_inject(s1, id, options)
                   IN  IF Fails("set_tag")
                       THEN /\ spans' = untagged(s1, id)
                            /\ queue' = queue
                            /\ last' = Refused("apply_async", args, id)
                       ELSE /\ spans' = finish(s1, id)
                            /\ queue' = IF kind = "ok"
                                        THEN Append(queue, Published(task, sent))
                                        ELSE queue
                            /\ last' = Call("apply_async", TRUE, id, args,
                                            <<task, sent>>, 1, out, out.result,
                                            out.exc, 0, 0)
        /\ UNCHANGED <<config, tracer, aside, ctx, frames, msgs, sends>>

\* the EXECUTE span of a task execution
execute_create_span(sp, id, task, task_id, parent_context, arguments) ==
    LET cfg == get_tracing_config.celery
        s0  == start_span(sp, id, <<"EXECUTE", task>>, parent_context)
        s1  == set_tag(s0, id, "span.kind", Str("consumer"))
        s2  == set_tag(s1, id, "component", Str("celery"))
        s3  == set_tag(s2, id, "celery.task_name", Str(task))
        s4  == set_tag(s3, id, "celery.task_id", Str(task_id))
        s5  == set_tag(s4, id, "celery.worker", Str("worker-1"))
        s6  == IF cfg.trace_task_args /\ Len(arguments.args) > 0
               THEN set_tag(s5, id, "celery.args_count",
                            Num(Len(arguments.args)))
               ELSE s5
    IN  IF cfg.trace_task_args /\ DOMAIN arguments.kwargs # {}
        THEN set_tag(s6, id, "celery.kwargs_count",
                     Num(Cardinality(DOMAIN arguments.kwargs)))
        ELSE s6

\* task.request of one execution: headers as the message carried them, span
\* is its _tracing_span attribute, NoSpan when absent; entered is the
\* Active-Span Context the worker had before
Request(task, headers, span, phase, entered) ==
    [kind |-> "task", task |-> task, headers |-> headers, span |-> span,
     phase |-> phase, entered |-> entered]

\* the prerun handler raised into the worker's signal dispatch, which is not
\* this program's: the worker runs the task all the same, or gives it up
Raised_in_prerun(task, headers, runs) ==
    IF runs THEN <<Request(task, headers, NoSpan, "running", ctx)>> ELSE <<>>

\* _task_prerun_handler(task_id, task, args, kwargs); the worker has taken the
\* task message off the broker, rest is what it left there
_task_prerun_handler(task, headers, arguments, rest) ==
    LET sp0 == Flush(spans)
        parent_context == IF NonEmpty(headers)
                             /\ ~extract_raises(headers.entries)
                          THEN extract(headers.entries)
                          ELSE NoParent
    IN  /\ last.op = "none"
        /\ Len(frames) = 0
        /\ IF ~_should_trace_task(task)
           THEN /\ spans' = sp0
                /\ ctx' = ctx
                /\ frames' = <<Request(task, headers, NoSpan, "running", ctx)>>
                /\ last' = NoCall
           ELSE IF Fails("initialize_global_tracer") \/ Fails("start_span")
           THEN /\ spans' = sp0
                /\ ctx' = ctx
                /\ \E runs \in BOOLEAN :
                       frames' = Raised_in_prerun(task, headers, runs)
                /\ last' = Refused("task_prerun", <<task>>, NoSpan)
           ELSE /\ HasFree(sp0)
                /\ \E id \in {FreshId(sp0)} :
                   LET s1 == execute_create_span(sp0, id, task, "t-7",
                                                 parent_context, arguments)
                   IN  IF Fails("set_tag")
                       THEN /\ spans' = untagged(s1, id)
                            /\ ctx' = ctx
                            /\ \E runs \in BOOLEAN :
                                   frames' = Raised_in_prerun(task, headers,
                                                              runs)
                            /\ last' = Refused("task_prerun", <<task>>, id)
                       ELSE /\ spans' = s1
                            /\ ctx' = span_in_context(ctx, id)
                            /\ frames' = <<Request(task, headers, id, "running",
                                                 ctx)>>
                            /\ last' = NoCall
        /\ queue' = rest
        /\ UNCHANGED <<config, tracer, aside, msgs, sends>>

\* _task_failure_handler(sender, exception): the task body raised
_task_failure_handler(exception) ==
    LET id == Top.span
        s1 == set_tag(set_tag(spans, id, "error", Bool(TRUE)),
                      id, "celery.state", Str("FAILURE"))
    IN  /\ last.op = "none"
        /\ Len(frames) > 0
        /\ Top.kind = "task"
        /\ Top.phase = "running"
        /\ spans' = IF id = NoSpan \/ Fails("set_tag_after") THEN spans
                    ELSE IF exception # NoExc /\ ~Fails("log_kv")
                         THEN log_kv(s1, id, ErrorEvent(exception))
                         ELSE s1
        /\ frames' = [frames EXCEPT ![Len(frames)].phase = "FAILURE"]
        /\ UNCHANGED <<config, tracer, aside, ctx, msgs, sends, queue, last>>

\* _task_retry_handler(sender, reason): the task body asked for a retry
_task_retry_handler(reason) ==
    LET id == Top.span
        s1 == set_tag(set_tag(spans, id, "celery.retry", Bool(TRUE)),
                      id, "celery.state", Str("RETRY"))
    IN  /\ last.op = "none"
        /\ Len(frames) > 0
        /\ Top.kind = "task"
        /\ Top.phase = "running"
        /\ spans' = IF id = NoSpan \/ Fails("set_tag_after") THEN spans
                    ELSE IF reason # "" /\ ~Fails("log_kv")
                         THEN log_kv(s1, id, [event |-> "retry",
                                              reason |-> reason])
                         ELSE s1
        /\ frames' = [frames EXCEPT ![Len(frames)].phase = "RETRY"]
        /\ UNCHANGED <<config, tracer, aside, ctx, msgs, sends, queue, last>>

\* the try block of the postrun handler: duration, state and result tags
postrun_tags(sp, id, dur, state, retval) ==
    LET s1 == set_tag(sp, id, "celery.duration_ms", Num(dur))
        s2 == set_tag(s1, id, "celery.state",
                      Str(IF state # NoState THEN state ELSE "SUCCESS"))
    IN  IF get_tracing_config.celery.trace_result /\ retval # NoRet
        THEN set_tag(s2, id, "celery.result_type", Str(retval.kind))
        ELSE s2

\* _task_postrun_handler(task, retval, state)
_task_postrun_handler(retval, state, dur, fault) ==
    LET id    == Top.span
        under == Out(IF Top.phase = "running" THEN "ok" ELSE "raise", retval)
        s1    == IF fault = "set_tag" THEN spans
                 ELSE postrun_tags(spans, id, dur, state, retval)
        pops  == IF id = NoSpan \/ fault = "finish" THEN 0 ELSE 1
    IN  /\ last.op = "none"
        /\ Len(frames) > 0
        /\ Top.kind = "task"
        /\ (id # NoSpan /\ Fails("set_tag_after")) => fault = "set_tag"
        /\ IF id = NoSpan
           THEN /\ fault = "none"
                /\ spans' = spans
                /\ ctx' = ctx
           ELSE IF fault = "finish"
           THEN /\ spans' = s1
                /\ ctx' = ctx
           ELSE /\ spans' = finish(s1, id)
                /\ ctx' = span_out_context(ctx)
        /\ frames' = Pop(frames)
        /\ last' = [Call("task", id # NoSpan, id, <<Top.task>>, <<Top.task>>,
                         1, under, NoRet,
                         IF id # NoSpan /\ fault = "finish" THEN TracerError
                         ELSE NoExc,
                         IF id = NoSpan THEN 0 ELSE 1, pops)
                      EXCEPT !.before = Top.entered]
        /\ UNCHANGED <<config, tracer, aside, msgs, sends, queue>>

CeleryApplyAsync ==
    \E task \in TaskNames, options \in DispatchOptions, kind \in OutcomeKinds :
        _inject_trace_context(task, options, kind)

CeleryPrerun ==
    \E arguments \in TaskArguments :
        \/ /\ Len(queue) > 0
           /\ _task_prerun_handler(Head(queue).task, Head(queue).headers,
                                   arguments, Tail(queue))
        \/ \E task \in TaskNames :
               _task_prerun_handler(task, NoDict, arguments, queue)

\* a task message from a publisher outside this program
CeleryPrerunForeign ==
    \E arguments \in TaskArguments, task \in TaskNames,
       headers \in ForeignCarriers :
        _task_prerun_handler(task, headers, arguments, queue)

CeleryTaskFailure == _task_failure_handler(BusinessError)

CeleryTaskRetry == \E reason \in {"", "later"} : _task_retry_handler(reason)

CeleryPostrun ==
    \E retval \in TaskResults, fault \in PostrunFaults,
       state \in {NoState, "SUCCESS", "FAILURE", "RETRY"} :
        /\ Len(frames) > 0
        /\ Top.kind = "task"
        /\ state # NoState =>
               state = (IF Top.phase = "running" THEN "SUCCESS" ELSE Top.phase)
        /\ _task_postrun_handler(retval, state, 50, fault)

----------------------------------------------------------------------------
(* Installation: the install / uninstall class methods *)

\* install calls of one component
MaxInstalls == 2

\* nested activations of execute_command the interpreter allows before it
\* raises RecursionError
RecursionLimit == 2

\* the value of a patched attribute: the library's own object under the
\* wrappers put around it, each named by the install call that made it
Attr(chain) == [is |-> "object", chain |-> chain]
Original == Attr(<<>>)
NoneAttr == [is |-> "None", chain |-> <<>>]

\* the Celery signals install connects a handler to
CelerySignals ==
    {"task_prerun", "task_postrun", "task_failure", "task_retry",
     "before_task_publish", "task_sent"}

\* the libraries as imported, the instrumentation classes as defined
Unpatched ==
    [op |-> <<"none", "">>,
     installs |-> [c \in Components |-> 0],
     make_cursor |-> Original,
     _original_make_cursor |-> NoneAttr,
     Connection |-> Original,
     redis_Connection |-> Original,
     _original_connection_class |-> NoneAttr,
     celery_installed |-> FALSE,
     receivers |-> [s \in CelerySignals |-> 0],
     apply_async |-> Original,
     rocketmq_installed |-> FALSE,
     send_sync |-> Original,
     send_async |-> Original,
     send_oneway |-> Original,
     subscribe |-> Original,
     Session_init |-> Original]

\* an install / uninstall call: op names it, installs counts the install calls
Called(p, op, component) ==
    [p EXCEPT !.op = op,
              !.installs[component] =
                  IF op[1] = "install" THEN @ + 1 ELSE @]

\* a wrapper around the current value of an attribute
Wrap(attr, n) == Attr(Append(attr.chain, n))

\* DatabaseInstrumentation.install
DatabaseInstall ==
    LET n == patches.installs["database"] + 1
        p == Called(patches, <<"install", "database">>, "database")
    IN  /\ n <= MaxInstalls
        /\ patches' =
             IF ~is_component_enabled("database") THEN p
             ELSE [p EXCEPT !._original_make_cursor = patches.make_cursor,
                            !.make_cursor = Attr(<<n>>)]
        /\ UNCHANGED <<config, tracer, trace_id, units, spans, ctx, frames,
                       msgs, sends, queue, last>>

\* DatabaseInstrumentation.uninstall
DatabaseUninstall ==
    LET p == Called(patches, <<"uninstall", "database">>, "database")
    IN  /\ patches' =
             IF patches._original_make_cursor # NoneAttr
             THEN [p EXCEPT !.make_cursor = patches._original_make_cursor]
             ELSE p
        /\ UNCHANGED <<config, tracer, trace_id, units, spans, ctx, frames,
                       msgs, sends, queue, last>>

\* RedisInstrumentation.install: TracedConnection subclasses the Connection
\* class it finds in redis.connection
RedisInstall ==
    LET n == patches.installs["redis"] + 1
        p == Called(patches, <<"install", "redis">>, "redis")
    IN  /\ n <= MaxInstalls
        /\ patches' =
             IF ~is_component_enabled("redis") THEN p
             ELSE [p EXCEPT !._original_connection_class = patches.Connection,
                            !.Connection = Wrap(patches.Connection, n),
                            !.redis_Connection = Wrap(patches.Connection, n)]
        /\ UNCHANGED <<config, tracer, trace_id, units, spans, ctx, frames,
                       msgs, sends, queue, last>>

\* RedisInstrumentation.uninstall
RedisUninstall ==
    LET p == Called(patches, <<"uninstall", "redis">>, "redis")
    IN  /\ patches' =
             IF patches._original_connection_class # NoneAttr
             THEN [p EXCEPT !.Connection = patches._original_connection_class,
                            !.redis_Connection =
                                patches._original_connection_class]
             ELSE p
        /\ UNCHANGED <<config, tracer, trace_id, units, spans, ctx, frames,
                       msgs, sends, queue, last>>

\* CeleryInstrumentation.install
CeleryInstall ==
    LET n == patches.installs["celery"] + 1
        p == Called(patches, <<"install", "celery">>, "celery")
    IN  /\ n <= MaxInstalls
        /\ patches' =
             IF patches.celery_installed \/ ~is_component_enabled("celery")
             THEN p
             ELSE [p EXCEPT !.receivers = [s \in CelerySignals |-> @[s] + 1],
                            !.apply_async = Wrap(patches.apply_async, n),
                            !.celery_installed = TRUE]
        /\ UNCHANGED <<config, tracer, trace_id, units, spans, ctx, frames,
                       msgs, sends, queue, last>>

\* RocketMQInstrumentation.install with _patch_producer and _patch_consumer
RocketMQInstall ==
    LET n == patches.installs["rocketmq"] + 1
        p == Called(patches, <<"install", "rocketmq">>, "rocketmq")
    IN  /\ n <= MaxInstalls
        /\ patches' =
             IF patches.rocketmq_installed \/ ~is_component_enabled("rocketmq")
             THEN p
             ELSE [p EXCEPT !.send_sync = Wrap(patches.send_sync, n),
                            !.send_async = Wrap(patches.send_async, n),
                            !.send_oneway = Wrap(patches.send_oneway, n),
                            !.subscribe = Wrap(patches.subscribe, n),
                            !.rocketmq_installed = TRUE]
        /\ UNCHANGED <<config, tracer, trace_id, units, spans, ctx, frames,
                       msgs, sends, queue, last>>

\* HTTPInstrumentation.install
HTTPInstall ==
    LET n == patches.installs["http_requests"] + 1
        p == Called(patches, <<"install", "http_requests">>, "http_requests")
    IN  /\ n <= MaxInstalls
        /\ patches' =
             IF ~is_component_enabled("http_requests") THEN p
             ELSE [p EXCEPT !.Session_init = Wrap(patches.Session_init, n)]
        /\ UNCHANGED <<config, tracer, trace_id, units, spans, ctx, frames,
                       msgs, sends, queue, last>>

\* HTTPInstrumentation.uninstall: logs a warning
HTTPUninstall ==
    /\ patches' = Called(patches, <<"uninstall", "http_requests">>, "http_requests")
    /\ UNCHANGED <<config, tracer, trace_id, units, spans, ctx, frames, msgs,
                   sends, queue, last>>

\* TracingRedisConnection.execute_command entered again through
\* self._connection.execute_command, which is TracedConnection.execute_command:
\* depth activations are still allowed; the innermost call raises
\* RecursionError, and every activation tags, logs and finishes its own span
RECURSIVE reentered(_, _, _, _)
reentered(sp, depth, traced, args) ==
    IF depth = 0 THEN sp
    ELSE IF ~traced THEN sp
    ELSE LET id == FreshId(sp)
             s1 == Redis_create_span(sp, id, args[1], Tail(args))
             s2 == reentered(s1, depth - 1, traced, args)
         IN  finally_finish(except_Exception(s2, id, RecursionError), id)

\* TracedConnection.execute_command(*args) on a connected connection of the
\* installed class: self._tracing_wrapper.execute_command(*args)
TracedConnection_execute_command(args) ==
    LET sp0    == Flush(spans)
        traced == _should_trace_command(args[1])
    IN  /\ Running
        /\ patches.Connection # Original
        /\ Cardinality(SpanIds \ Mentioned(sp0)) >= RecursionLimit
        /\ spans' = reentered(sp0, RecursionLimit, traced, args)
        /\ last' = Call("TracedConnection.execute_command", traced,
                        IF traced THEN FreshId(sp0) ELSE NoSpan, args, args, 0,
                        NotCalled, NoRet, RecursionError, 0, 0)
        /\ UNCHANGED <<config, tracer, aside, ctx, frames, msgs, sends, queue>>

TracedConnectionExecute ==
    \E args \in RedisArgs : args # <<>> /\ TracedConnection_execute_command(args)

----------------------------------------------------------------------------
(* Generic wrap helper: enabled_tracing *)

\* nested calls of wrapped functions one thread can be in
MaxDepth == 2

\* tracing.trace_id is None
NoTraceId == [is |-> "None", trace |-> 0, span |-> 0, parent |-> 0, flags |-> 0]

\* the context string the request put on the tracer before the thread's code
\* runs: a span of the caller's process
IncomingTraceId ==
    [is |-> "str", trace |-> 9, span |-> 9, parent |-> 0, flags |-> 1]

\* codecs.span_context_to_string(trace_id, span_id, parent_id, flags)
span_context_to_string(sp, id) ==
    [is |-> "str", trace |-> sp[id].trace, span |-> id,
     parent |-> sp[id].parent.span, flags |-> 1]

\* tracer.extract(HTTP_HEADERS, {TRACE_ID_HEADER: value}): the codec parses
\* the string back into a context
span_context_from_string(value) == [trace |-> value.trace, span |-> value.span]

\* _call, lines 22-28: span_ctx; None when the value is no string or extract
\* raises (bare except)
wrap_span_ctx(value) ==
    IF value.is = "str" /\ ~Fails("extract")
    THEN span_context_from_string(value)
    ELSE NoParent

\* the caller's positional and keyword arguments
WrapArgs == <<"self", "x", [timeout |-> 3]>>

\* the name_generator a function is wrapped with: the default gen_name, which
\* gives func.__name__, one that gives a fixed name, one that raises
NameGenerators == {"gen_name", "celery_name", "raises"}

name_generator(g) == IF g = "gen_name" THEN <<"func">> ELSE <<"CELERY">>

\* the exception of a raising name_generator
NameError == [cls |-> "KeyError", msg |-> "name"]

\* the record of a completed call of a wrapped function; before: the value of
\* tracing.trace_id when the call began
Wrapped(span, calls, under, ret, raised, before) ==
    [op |-> "_call", span |-> span, argsIn |-> WrapArgs,
     argsOut |-> IF calls = 0 THEN <<>> ELSE WrapArgs, calls |-> calls,
     under |-> under, ret |-> ret, raised |-> raised, before |-> before]

NoWrapped ==
    [Wrapped(NoSpan, 0, NotCalled, NoRet, NoExc, NoTraceId) EXCEPT !.op = "none",
                                                                   !.argsIn = <<>>]

\* a thread that is in no wrapped call
Idle == [stack |-> <<>>, done |-> NoWrapped]

\* the thread's code is running: at top level, or inside func
UnitRunning(u) ==
    /\ units[u].done.op = "none"
    /\ IF units[u].stack = <<>> THEN TRUE
       ELSE units[u].stack[Len(units[u].stack)].pc = "running"

UnitAt(u, pc) ==
    /\ units[u].done.op = "none"
    /\ units[u].stack # <<>>
    /\ units[u].stack[Len(units[u].stack)].pc = pc

\* _call, lines 20-29: the tracer, the parent context read from
\* tracing.trace_id, the name, the span
_call_enter(u, g) ==
    LET sp0         == Flush(spans)
        span_ctx    == wrap_span_ctx(trace_id)
        name_raises == g = "raises"
    IN  /\ UnitRunning(u)
        /\ Len(units[u].stack) < MaxDepth
        /\ IF Fails("initialize_global_tracer") \/ Fails("start_span")
              \/ name_raises
           THEN /\ spans' = sp0
                /\ units' = [units EXCEPT ![u].done =
                                Wrapped(NoSpan, 0, NotCalled, NoRet,
                                        IF Fails("initialize_global_tracer")
                                        THEN TracerError
                                        ELSE IF name_raises THEN NameError
                                        ELSE TracerError,
                                        trace_id)]
           ELSE /\ HasFree(sp0)
                /\ \E id \in {FreshId(sp0)} :
                   LET s0 == start_span(sp0, id, name_generator(g), span_ctx)
                   IN  /\ spans' = IF span_ctx # NoParent
                                   THEN set_tag(s0, id, "span.kind", Str("server"))
                                   ELSE s0
                       /\ units' = [units EXCEPT ![u].stack =
                                       Append(@, [span |-> id, pc |-> "opened",
                                                  previous |-> NoTraceId,
                                                  before |-> trace_id])]
        /\ UNCHANGED <<config, tracer, patches, trace_id, ctx, frames, msgs,
                       sends, queue, last>>

\* _call, lines 31-32 and 36-37: span_processor, then previous_trace_id is
\* read from tracing.trace_id; a raising span_processor leaves it None
_call_process(u, processor_raises) ==
    LET n == Len(units[u].stack)
    IN  /\ UnitAt(u, "opened")
        /\ units' = [units EXCEPT ![u].stack[n] =
                        IF processor_raises
                        THEN [@ EXCEPT !.pc = "running", !.previous = NoTraceId]
                        ELSE [@ EXCEPT !.pc = "read", !.previous = trace_id]]
        /\ UNCHANGED <<config, tracer, patches, trace_id, spans, ctx, frames,
                       msgs, sends, queue, last>>

\* _call, lines 33-37: the span's context is written to tracing.trace_id; a
\* span whose context cannot be serialised leaves previous_trace_id None
_call_publish(u, serialise_raises) ==
    LET n    == Len(units[u].stack)
        span == units[u].stack[n].span
    IN  /\ UnitAt(u, "read")
        /\ IF serialise_raises
           THEN /\ trace_id' = trace_id
                /\ units' = [units EXCEPT ![u].stack[n] =
                                [@ EXCEPT !.pc = "running",
                                          !.previous = NoTraceId]]
           ELSE /\ trace_id' = span_context_to_string(spans, span)
                /\ units' = [units EXCEPT ![u].stack[n].pc = "running"]
        /\ UNCHANGED <<config, tracer, patches, spans, ctx, frames, msgs, sends,
                       queue, last>>

\* leaving  with tracer.start_span(...) as span : the span is finished, and
\* tagged and logged when an exception passes
with_span_exit(sp, id, exc) ==
    finish(IF exc = NoExc THEN sp
           ELSE log_kv(set_tag(sp, id, "error", Bool(TRUE)), id, ErrorEvent(exc)),
           id)

\* _call, lines 38-41: func(*args, **kwargs) returns or raises, the finally
\* block writes previous_trace_id back, the with block ends
_call_return(u, kind) ==
    LET n     == Len(units[u].stack)
        frame == units[u].stack[n]
        out   == Out(kind, [kind |-> "value", of |-> WrapArgs])
    IN  /\ UnitAt(u, "running")
        /\ trace_id' = frame.previous
        /\ spans' = with_span_exit(spans, frame.span, out.exc)
        /\ units' = [units EXCEPT ![u].stack = Pop(@),
                                  ![u].done = Wrapped(frame.span, 1, out,
                                                      out.result, out.exc,
                                                      frame.before)]
        /\ UNCHANGED <<config, tracer, patches, ctx, frames, msgs, sends, queue,
                       last>>

\* the thread takes the outcome of the call and goes on
_call_continue(u) ==
    /\ units[u].done.op # "none"
    /\ units' = [units EXCEPT ![u].done = NoWrapped]
    /\ spans' = Flush(spans)
    /\ UNCHANGED <<config, tracer, patches, trace_id, ctx, frames, msgs, sends,
                   queue, last>>

WrapEnter ==
    \E u \in DOMAIN units, g \in NameGenerators : _call_enter(u, g)

WrapProcess ==
    \E u \in DOMAIN units, processor_raises \in BOOLEAN :
        _call_process(u, processor_raises)

WrapPublish ==
    \E u \in DOMAIN units, serialise_raises \in BOOLEAN :
        _call_publish(u, serialise_raises)

WrapReturn == \E u \in DOMAIN units, kind \in OutcomeKinds : _call_return(u, kind)

WrapContinue == \E u \in DOMAIN units : _call_continue(u)

----------------------------------------------------------------------------
(* Specifications: one per workload *)

\* the state after the adapters are constructed, under one of the given
\* configurations
InitWith(configs) ==
    /\ config \in configs
    /\ spans = <<>>
    /\ ctx = <<>>
    /\ frames = <<>>
    /\ msgs = NewMsgs
    /\ sends = <<>>
    /\ queue = <<>>
    /\ last = NoCall
    /\ tracer = Healthy
    /\ patches = Unpatched
    /\ trace_id = NoTraceId
    /\ units = <<>>

\* the caller takes the outcome of the call and goes on; the reporter hands
\* the finished spans nobody holds to the collector
Continue ==
    /\ last.op # "none"
    /\ last' = NoCall
    /\ spans' = Flush(spans)
    /\ UNCHANGED <<config, tracer, aside, ctx, frames, msgs, sends, queue>>

\* a short form of each synchronous adapter call, for the workloads that nest
\* them inside a consume callback or a task
DbExecuteBrief ==
    \E kind \in OutcomeKinds :
        execute("update", kind, 50, 2)

RedisExecuteCommandBrief ==
    \E kind \in OutcomeKinds :
        execute_command(<<getCmd, "k">>, kind, 50, [kind |-> "str", len |-> 3])

HttpSendBrief ==
    \E kind \in OutcomeKinds :
        send(CHOOSE r \in Requests : r.method = "GET", kind, 50,
             [status_code |-> 200, size |-> 7])

\* the synchronous adapters: database, Redis, outbound HTTP and the blocking
\* RocketMQ sends, called at top level and inside a consume callback
SyncConfigs ==
    {BaseConfig, Disabled("database"), Disabled("redis"),
     Disabled("http_requests"),
     [BaseConfig EXCEPT !.redis.ignore_commands = {GetCmd}],
     [BaseConfig EXCEPT !.redis.log_commands = {SetCmd}],
     [BaseConfig EXCEPT !.http_requests.trace_headers = FALSE],
     [BaseConfig EXCEPT !.database.log_sql = TRUE]}

InitSync == InitWith(SyncConfigs)

NextSync ==
    \/ DbExecute
    \/ DbExecuteMany
    \/ RedisExecuteCommand
    \/ HttpSend
    \/ RmqSendSync
    \/ RmqSendOneway
    \/ RmqConsumeBegin
    \/ RmqConsumeEnd
    \/ Continue

SpecSync == InitSync /\ [][NextSync]_vars

\* the RocketMQ producer and consumer wrappers
RmqConfigs ==
    {BaseConfig, Disabled("rocketmq"),
     [BaseConfig EXCEPT !.rocketmq.ignore_topics = {}]}

InitRmq == InitWith(RmqConfigs)

NextRmq ==
    \/ RmqSendSync
    \/ RmqSendOneway
    \/ RmqSendAsync
    \/ RmqSendAsyncReturns
    \/ RmqCompletion
    \/ RmqConsumeBegin
    \/ RmqConsumeEnd
    \/ RmqConsumeUntraced
    \/ Continue

SpecRmq == InitRmq /\ [][NextRmq]_vars

\* the Celery dispatch wrapper and the worker's signal handlers
CeleryConfigs ==
    {BaseConfig, Disabled("celery"),
     [BaseConfig EXCEPT !.celery.trace_task_args = TRUE,
                        !.celery.trace_result = TRUE]}

InitCelery == InitWith(CeleryConfigs)

NextCelery ==
    \/ CeleryApplyAsync
    \/ CeleryPrerun
    \/ CeleryTaskFailure
    \/ CeleryTaskRetry
    \/ CeleryPostrun
    \/ DbExecuteBrief
    \/ RedisExecuteCommandBrief
    \/ HttpSendBrief
    \/ Continue

SpecCelery == InitCelery /\ [][NextCelery]_vars

\* the Redis adapter under every setting of its enabled flag and of its two
\* command lists
RedisListed == {GetCmd, getCmd, SetCmd}

RedisConfigs ==
    {[BaseConfig EXCEPT !.redis = [enabled         |-> e,
                                   ignore_commands |-> ignored,
                                   log_commands    |-> logged]] :
        e \in BOOLEAN, ignored \in SUBSET RedisListed,
        logged \in SUBSET RedisListed}

InitRedis == InitWith(RedisConfigs)

NextRedis ==
    \/ RedisExecuteCommand
    \/ Continue

SpecRedis == InitRedis /\ [][NextRedis]_vars

\* a workload that begins with a tracer that does not work: one of its
\* operations raises whenever it is called
InitBroken(configs, faults) ==
    /\ config \in configs
    /\ spans = <<>>
    /\ ctx = <<>>
    /\ frames = <<>>
    /\ msgs = NewMsgs
    /\ sends = <<>>
    /\ queue = <<>>
    /\ last = NoCall
    /\ tracer \in faults
    /\ patches = Unpatched
    /\ trace_id = NoTraceId
    /\ units = <<>>

\* the synchronous adapters when span.set_tag or span.log_kv raises
TagFaults == {"set_tag", "set_tag_after", "log_kv"}

InitTagFaults == InitBroken({BaseConfig}, TagFaults)

NextTagFaults ==
    \/ DbExecute
    \/ DbExecuteMany
    \/ RedisExecuteCommand
    \/ HttpSend
    \/ RmqSendSync
    \/ RmqSendOneway
    \/ RmqConsumeBegin
    \/ RmqConsumeEnd
    \/ Continue

SpecTagFaults == InitTagFaults /\ [][NextTagFaults]_vars

\* outbound HTTP under configurations that list request names: the ignore
\* list and the allow list of the http_requests component
RequestName(request) ==
    <<request.method,
      IF request.url.path # "" THEN request.url.path ELSE "/">>

HttpListed(ignore_list, allow_list) ==
    [BaseConfig EXCEPT !.http_requests =
        [enabled |-> TRUE, trace_headers |-> TRUE,
         ignore_list |-> ignore_list, allow_list |-> allow_list]]

HttpConfigs ==
    {HttpListed({}, {}),
     HttpListed({<<"GET", "/y">>}, {}),
     HttpListed({<<"POST", "/">>}, {}),
     HttpListed({}, {<<"POST", "/">>}),
     HttpListed({<<"GET", "/y">>}, {<<"GET", "/y">>})}

InitHttp == InitWith(HttpConfigs)

NextHttp ==
    \/ HttpSend
    \/ RmqConsumeBegin
    \/ RmqConsumeEnd
    \/ Continue

SpecHttp == InitHttp /\ [][NextHttp]_vars

\* the adapters that inject a context into a carrier, when tracer.inject
\* raises: outbound HTTP, the Celery dispatch, the RocketMQ sends; a consume
\* callback supplies the current span
InitInjectFaults == InitBroken({BaseConfig}, {"inject"})

NextInjectFaults ==
    \/ HttpSendBrief
    \/ CeleryApplyAsync
    \/ RmqSendSync
    \/ RmqSendOneway
    \/ RmqSendAsync
    \/ RmqSendAsyncReturns
    \/ RmqCompletion
    \/ RmqConsumeBegin
    \/ RmqConsumeEnd
    \/ Continue

SpecInjectFaults == InitInjectFaults /\ [][NextInjectFaults]_vars

\* every adapter when the tracer cannot be obtained or cannot start a span:
\* no consume callback and no asynchronous send gets as far as its second
\* half
TracerDown == {"initialize_global_tracer", "start_span"}

InitTracerDown == InitBroken({BaseConfig}, TracerDown)

NextTracerDown ==
    \/ DbExecute
    \/ DbExecuteMany
    \/ RedisExecuteCommand
    \/ HttpSend
    \/ RmqSendSync
    \/ RmqSendOneway
    \/ RmqSendAsync
    \/ RmqCompletion
    \/ RmqConsumeBegin
    \/ RmqConsumeUntraced
    \/ CeleryApplyAsync
    \/ CeleryPrerun
    \/ CeleryTaskFailure
    \/ CeleryTaskRetry
    \/ CeleryPostrun
    \/ Continue

SpecTracerDown == InitTracerDown /\ [][NextTracerDown]_vars

\* the consumer side and what reaches it: messages and task messages of this
\* program's own producers and of others, under a working tracer and under
\* one whose extract raises
InitCarriers == InitBroken({BaseConfig}, {Healthy, "extract"})

NextCarriers ==
    \/ RmqSendSync
    \/ RmqConsumeBegin
    \/ RmqConsumeForeign
    \/ RmqConsumeEnd
    \/ CeleryApplyAsync
    \/ CeleryPrerun
    \/ CeleryPrerunForeign
    \/ CeleryPostrun
    \/ Continue

SpecCarriers == InitCarriers /\ [][NextCarriers]_vars

\* installation: install and uninstall calls in any order under each
\* configuration of the enabled flags, and commands on a connection of the
\* installed Redis connection class
InstallConfigs == {BaseConfig} \cup {Disabled(c) : c \in Components}

InitInstall == InitWith(InstallConfigs)

NextInstall ==
    \/ DatabaseInstall
    \/ DatabaseUninstall
    \/ RedisInstall
    \/ RedisUninstall
    \/ CeleryInstall
    \/ RocketMQInstall
    \/ HTTPInstall
    \/ HTTPUninstall
    \/ TracedConnectionExecute
    \/ Continue

SpecInstall == InitInstall /\ [][NextInstall]_vars

\* threads calling functions wrapped by enabled_tracing, with the value the
\* tracer's trace_id attribute has when they start
InitUnits(threads, values) ==
    /\ config = BaseConfig
    /\ spans = <<>>
    /\ ctx = <<>>
    /\ frames = <<>>
    /\ msgs = NewMsgs
    /\ sends = <<>>
    /\ queue = <<>>
    /\ last = NoCall
    /\ tracer = Healthy
    /\ patches = Unpatched
    /\ trace_id \in values
    /\ units = [u \in threads |-> Idle]

NextWrap ==
    \/ WrapEnter
    \/ WrapProcess
    \/ WrapPublish
    \/ WrapReturn
    \/ WrapContinue

\* one thread, wrapped functions calling wrapped functions
InitWrap == InitUnits({"t1"}, {NoTraceId, IncomingTraceId})

SpecWrap == InitWrap /\ [][NextWrap]_vars

\* two threads
InitThreads == InitUnits({"t1", "t2"}, {NoTraceId})

SpecThreads == InitThreads /\ [][NextWrap]_vars

\* adapter calls nested in a consume callback and in a task execution
InitNested == InitWith({BaseConfig})

NextNested ==
    \/ DbExecuteBrief
    \/ RedisExecuteCommandBrief
    \/ HttpSendBrief
    \/ RmqSendOneway
    \/ CeleryApplyAsync
    \/ RmqConsumeBegin
    \/ RmqConsumeEnd
    \/ CeleryPrerun
    \/ CeleryTaskFailure
    \/ CeleryPostrun
    \/ Continue

SpecNested == InitNested /\ [][NextNested]_vars

----------------------------------------------------------------------------
(* Properties *)

\* the entry points of the synchronous database, Redis and HTTP adapters
SyncOps == {"execute", "executemany", "execute_command", "send"}

\* C1: every traced call through execute, executemany, execute_command or
\* send starts exactly one span and leaves every other span as it was, and
\* that span has been finished exactly once when control is back at the
\* caller, whether the underlying call returned, raised or was cancelled
C1_OneSpanFinishedOnce ==
    [][(last'.op \in SyncOps /\ last'.traced) =>
          LET before == Flush(spans)
              id     == last'.span
          IN  /\ id \notin DOMAIN before
              /\ DOMAIN spans' = DOMAIN before \cup {id}
              /\ \A i \in DOMAIN before : spans'[i] = before[i]
              /\ spans'[id].finished = 1
              /\ last'.calls = 1]_vars

\* a traced synchronous call whose underlying call raised is back at the caller
C1_Witness ==
    /\ last.op \in SyncOps
    /\ last.traced
    /\ last.under.kind = "raise"
    /\ spans[last.span].finished = 1

\* C2: a traced send_sync, send_oneway or consume callback finishes its span
\* exactly once before it returns or re-raises, when the underlying send or
\* the user's callback returns and when it raises; the consume span pushed on
\* the Active-Span Context has been popped again, leaving the context as it
\* was before the callback
C2_RocketMQFinishedOnce ==
    (/\ last.op \in {"send_sync", "send_oneway", "consume"}
     /\ last.traced
     /\ last.under.kind \in {"ok", "raise"})
    => /\ spans[last.span].finished = 1
       /\ last.calls = 1
       /\ last.op = "consume" =>
              /\ ctx = last.before
              /\ \A i \in DOMAIN ctx : ctx[i] # last.span

\* a traced consume callback that raised has re-raised to the consumer
C2_Witness ==
    /\ last.op = "consume"
    /\ last.traced
    /\ last.under.kind = "raise"
    /\ spans[last.span].finished = 1
    /\ ctx = last.before

\* C3: a traced send_async that returns normally leaves its SEND span to the
\* completion callback registered for that send, which finishes it exactly
\* once, under every interleaving of sends and completions, sends of the same
\* message object included; a traced send_async that raises has finished its
\* span once; no SEND span is ever finished twice
C3_AsyncFinishedOnceByItsCallback ==
    /\ (last.op = "send_async" /\ last.traced /\ last.under.kind = "ok") =>
           \/ spans[last.span].finished = 0
           \/ /\ spans[last.span].finished = 1
              /\ \A i \in DOMAIN sends : sends[i].span # last.span
    /\ (last.op = "send_async" /\ last.traced /\ last.under.kind = "raise") =>
           spans[last.span].finished = 1
    /\ (last.op = "traced_callback" /\ last.own # NoSpan) =>
           /\ last.span = last.own
           /\ spans[last.own].finished = 1
    /\ \A id \in DOMAIN spans : spans[id].finished <= 1

\* C4: when task_postrun has run after task_prerun, with task_failure or
\* task_retry in between or not, the EXECUTE span has been finished exactly
\* once, the span pushed in prerun has been popped exactly once so that the
\* Active-Span Context is what it was before prerun, and pops never exceed
\* pushes; this includes a postrun in which a tag computation or span.finish()
\* fails
C4_ExecuteFinishedAndPoppedOnce ==
    /\ (last.op = "task" /\ last.traced) =>
           /\ spans[last.span].finished <= 1
           /\ last.raised = NoExc => spans[last.span].finished = 1
           /\ last.pushes = 1
           /\ last.pops = 1
           /\ ctx = last.before
    /\ last.op = "task" => last.pops <= last.pushes

\* the entry points of the adapters that re-raise a business error
RaisingOps == SyncOps \cup {"send_sync", "send_oneway", "consume"}

\* C5: when the underlying call of a traced database, Redis, HTTP or RocketMQ
\* send or consume call raises an exception E, the span is tagged error=true,
\* an error event with E's class name and message is logged on it, the span
\* is finished, and the caller sees the very same E
C5_ErrorTaggedLoggedReraised ==
    (last.op \in RaisingOps /\ last.traced /\ last.under.kind = "raise") =>
        /\ HasTag(spans, last.span, "error")
        /\ spans[last.span].tags["error"] = Bool(TRUE)
        /\ \E i \in DOMAIN spans[last.span].logs :
               spans[last.span].logs[i] = ErrorEvent(last.under.exc)
        /\ spans[last.span].finished = 1
        /\ last.raised = last.under.exc
        /\ last.ret = NoRet

\* a traced RocketMQ send whose underlying send raised, with its span tagged
C5_Witness ==
    /\ last.op \in {"send_sync", "send_oneway"}
    /\ last.traced
    /\ last.under.kind = "raise"
    /\ last.raised = BusinessError
    /\ HasTag(spans, last.span, "error")

\* C6: when the original apply_async raises during a traced dispatch, the
\* PUBLISH span is tagged as an error with the error kind and message, has
\* been finished exactly once, and the caller sees the same exception
C6_PublishErrorTagged ==
    (last.op = "apply_async" /\ last.traced /\ last.under.kind = "raise") =>
        /\ HasTag(spans, last.span, "error")
        /\ \E i \in DOMAIN spans[last.span].logs :
               spans[last.span].logs[i] = ErrorEvent(last.under.exc)
        /\ spans[last.span].finished = 1
        /\ last.raised = last.under.exc

\* the component each synchronous entry point belongs to
ComponentOf(op) ==
    CASE op \in {"execute", "executemany"} -> "database"
      [] op = "execute_command"           -> "redis"
      [] OTHER                            -> "http_requests"

\* C7: with database, redis or http_requests disabled, a call of execute,
\* executemany, execute_command or send starts no span and touches none,
\* injects no header, hands the caller's arguments unchanged to the underlying
\* call exactly once, and gives the caller its result or its exception
C7_DisabledIsPassThrough ==
    [][(/\ last'.op \in SyncOps
        /\ ~is_component_enabled(ComponentOf(last'.op))) =>
          /\ spans' = Flush(spans)
          /\ ~last'.traced
          /\ last'.span = NoSpan
          /\ last'.argsOut = last'.argsIn
          /\ last'.calls = 1
          /\ last'.ret = last'.under.result
          /\ last'.raised = last'.under.exc]_vars

\* an outbound request with http_requests disabled has returned its response
C7_Witness ==
    /\ last.op = "send"
    /\ ~is_component_enabled("http_requests")
    /\ last.under.kind = "ok"
    /\ last.ret = last.under.result
    /\ last.calls = 1

\* the spans a component's adapter creates, told by the first word of the name
SpansNamed(words) == {id \in DOMAIN spans : spans[id].name[1] \in words}

\* C8: while celery is disabled no dispatch, prerun or postrun handler that is
\* invoked creates a span, and the dispatch runs with the caller's arguments
\* and result; while rocketmq is disabled no send or consume wrapper creates a
\* span: the decision taken on every call honours the enabled flag
C8_DisabledCreatesNoSpan ==
    /\ ~is_component_enabled("celery") =>
           /\ SpansNamed({"PUBLISH", "EXECUTE"}) = {}
           /\ last.op \in {"apply_async", "task"} =>
                  /\ ~last.traced
                  /\ last.argsOut = last.argsIn
                  /\ last.raised = last.under.exc
    /\ ~is_component_enabled("rocketmq") =>
           /\ SpansNamed({"SEND", "RECEIVE"}) = {}
           /\ last.op \in {"send_sync", "send_oneway", "send_async", "consume"} =>
                  /\ ~last.traced
                  /\ last.argsOut = last.argsIn

\* the reference predicate should_trace(component, name) for Redis, with
\* membership in the two lists decided by the given relation
should_trace(name, listed(_, _)) ==
    LET redis == get_tracing_config.redis
    IN  IF ~redis.enabled THEN FALSE
        ELSE IF listed(name, redis.ignore_commands) THEN FALSE
        ELSE IF redis.log_commands # {} THEN listed(name, redis.log_commands)
        ELSE TRUE

\* the name is an element of the list as written
ListedExactly(name, list) == name \in list
\* the name is an element of the list up to letter case
ListedIgnoringCase(name, list) == \E cmd \in list : upper(cmd) = upper(name)

\* the command names a call can carry
CommandNames == {args[1] : args \in RedisArgs \ {<<>>}}

\* how a predicate on command names compares with the adapter: same value as
\* _should_trace_command on every name, and execute_command has created a
\* span exactly when the predicate is true of the command it was given
AgreesWithAdapter(predicate(_)) ==
    /\ \A name \in CommandNames : _should_trace_command(name) = predicate(name)
    /\ (last.op = "execute_command" /\ last.argsIn # <<>>) =>
           /\ last.traced = predicate(last.argsIn[1])
           /\ last.traced = (last.span \in DOMAIN spans)

ReferenceExact(name) == should_trace(name, ListedExactly)
ReferenceIgnoringCase(name) == should_trace(name, ListedIgnoringCase)

\* C9 as stated: _should_trace_command equals the reference predicate with
\* plain membership in ignore_commands and log_commands, for every command
\* name and configuration, and a span is created exactly when it is true
C9_EqualsReferenceExact == AgreesWithAdapter(ReferenceExact)

\* C9 amended: _should_trace_command equals the reference predicate with
\* membership taken up to letter case: false when redis is disabled, false
\* when the command is in ignore_commands, with a non-empty log_commands true
\* only for a listed command, true otherwise; a command in both lists is not
\* traced, and execute_command creates a span exactly when it is true
C9_EqualsReferenceIgnoringCase ==
    /\ AgreesWithAdapter(ReferenceIgnoringCase)
    /\ \A name \in CommandNames :
           (/\ ListedIgnoringCase(name, get_tracing_config.redis.ignore_commands)
            /\ ListedIgnoringCase(name, get_tracing_config.redis.log_commands))
           => ~_should_trace_command(name)

\* the command "get" was issued while only "GET" is on the ignore list, and
\* went untraced
C9_Witness ==
    /\ last.op = "execute_command"
    /\ last.argsIn # <<>>
    /\ last.argsIn[1] = getCmd
    /\ get_tracing_config.redis.enabled
    /\ get_tracing_config.redis.ignore_commands = {GetCmd}
    /\ ~last.traced

\* the message a completed RocketMQ call was about
MessageOf(call) ==
    IF call.op = "consume" THEN call.argsIn[1].msg ELSE call.argsIn[1]

\* C10: for a message whose topic is in rocketmq.ignore_topics, every
\* send_sync, send_async, send_oneway and consume creates no span, leaves the
\* message's properties unchanged and attaches no tracing attribute, calls
\* the original method exactly once with the same arguments, and returns its
\* result unchanged
C10_IgnoredTopicUntouched ==
    [][(/\ last'.op \in {"send_sync", "send_async", "send_oneway", "consume"}
        /\ MsgAttrs[MessageOf(last')].topic
               \in get_tracing_config.rocketmq.ignore_topics) =>
          /\ spans' = Flush(spans)
          /\ msgs' = msgs
          /\ ~last'.traced
          /\ last'.calls = 1
          /\ last'.argsOut = last'.argsIn
          /\ last'.ret = last'.under.result
          /\ last'.raised = last'.under.exc]_vars

\* C11: for a Celery task whose name is in celery.ignore_tasks, the dispatch,
\* the prerun handler and the postrun handler create no span, leave the
\* dispatch headers as the caller gave them and neither push nor pop the
\* Active-Span Context; the original apply_async is called exactly once with
\* the caller's arguments and options.
IgnoredTasks == get_tracing_config.celery.ignore_tasks

C11_IgnoredTaskUntouched ==
    [][/\ (/\ last'.op = "apply_async"
           /\ last.op = "none"
           /\ last'.argsIn[1] \in IgnoredTasks)
          => /\ ~last'.traced
             /\ last'.span = NoSpan
             /\ last'.calls = 1
             /\ last'.argsOut = last'.argsIn
             /\ last'.ret = last'.under.result
             /\ last'.raised = last'.under.exc
             /\ last'.pushes = 0 /\ last'.pops = 0
             /\ ctx' = ctx
             /\ DOMAIN spans' \subseteq DOMAIN spans
             /\ last'.under.kind = "ok" =>
                    /\ Len(queue') = Len(queue) + 1
                    /\ queue'[Len(queue')] =
                           Published(last'.argsIn[1], last'.argsIn[2])
       /\ (/\ Len(frames') > Len(frames)
           /\ frames'[Len(frames')].kind = "task"
           /\ frames'[Len(frames')].task \in IgnoredTasks)
          => /\ frames'[Len(frames')].span = NoSpan
             /\ ctx' = ctx
             /\ DOMAIN spans' \subseteq DOMAIN spans
       /\ (/\ last'.op = "task"
           /\ last.op = "none"
           /\ last'.argsIn[1] \in IgnoredTasks)
          => /\ ~last'.traced
             /\ last'.pushes = 0 /\ last'.pops = 0
             /\ last'.raised = NoExc
             /\ ctx' = ctx
             /\ spans' = spans
      ]_vars

\* an ignored task has been dispatched with headers of the caller's own, and
\* an execution of the ignored task has just ended
C11_Witness ==
    /\ last.op = "task"
    /\ last.argsIn = <<"cleanup">>
    /\ "cleanup" \in IgnoredTasks
    /\ Len(queue) > 0
    /\ Head(queue).task = "cleanup"
    /\ NonEmpty(Head(queue).headers)

\* the DECIDE step on a request name: not traced when the name is on the
\* ignore list, or when the allow list is non-empty and does not have it
HttpShouldTrace(name) ==
    LET http == get_tracing_config.http_requests
    IN  IF ~http.enabled THEN FALSE
        ELSE IF name \in http.ignore_list THEN FALSE
        ELSE IF http.allow_list # {} THEN name \in http.allow_list
        ELSE TRUE

\* C12: TracingHTTPAdapter.send applies the DECIDE step to the name
\* "<METHOD> <PATH>": for a request whose name is on the http_requests ignore
\* list, or is missing from a non-empty allow list, it creates no span and
\* sends the request untouched.
C12_ListedRequestUntouched ==
    (last.op = "send" /\ ~HttpShouldTrace(RequestName(last.argsIn[1]))) =>
        /\ ~last.traced
        /\ last.span = NoSpan
        /\ last.calls = 1
        /\ last.argsOut = last.argsIn
        /\ last.ret = last.under.result
        /\ last.raised = last.under.exc

\* C13: executing "SELECT 1 FROM t" through execute, with database enabled,
\* no ignore list and an active parent span S, creates exactly one span: a
\* child of S named "DB_QUERY", tagged component = "database" and a duration
\* >= 0, without an error tag, finished exactly once.
C13_ScenarioQuerySpan ==
    (/\ last.op = "execute"
     /\ SqlText[last.argsIn[1]] = SqlScenario
     /\ is_component_enabled("database")
     /\ last.before # <<>>
     /\ last.under.kind = "ok") =>
        /\ last.traced
        /\ last.span \in DOMAIN spans
        /\ Cardinality({id \in DOMAIN spans :
                           spans[id].name = <<"DB_QUERY">>}) = 1
        /\ spans[last.span].name = <<"DB_QUERY">>
        /\ spans[last.span].parent.span = last.before[Len(last.before)]
        /\ HasTag(spans, last.span, "component")
        /\ spans[last.span].tags["component"] = Str("database")
        /\ HasTag(spans, last.span, "db.duration_ms")
        /\ spans[last.span].tags["db.duration_ms"].n >= 0
        /\ ~HasTag(spans, last.span, "error")
        /\ spans[last.span].finished = 1

\* C14: a task dispatched through the traced apply_async and then executed
\* with the headers the dispatch produced: the EXECUTE span's parent context
\* has the trace id of the PUBLISH span the dispatch created.  The dispatch
\* of a task that is not ignored, with or without an active span, creates
\* the PUBLISH span and puts its context into the headers of the message,
\* and the prerun handler makes the context it finds in those headers the
\* parent of the EXECUTE span.
C14_ExecuteJoinsPublishTrace ==
    [][/\ (/\ last'.op = "apply_async"
           /\ last.op = "none"
           /\ is_component_enabled("celery")
           /\ last'.argsIn[1] \notin IgnoredTasks
           /\ last'.under.kind = "ok")
          => /\ last'.span \in DOMAIN spans'
             /\ spans'[last'.span].name = <<"PUBLISH", last'.argsIn[1]>>
             /\ CarrierOf(queue'[Len(queue')].headers).trace
                    = spans'[last'.span].trace
       /\ (/\ Len(frames') > Len(frames)
           /\ frames'[Len(frames')].kind = "task"
           /\ is_component_enabled("celery")
           /\ frames'[Len(frames')].task \notin IgnoredTasks
           /\ Len(queue) > 0
           /\ queue' = Tail(queue))
          => /\ frames'[Len(frames')].span \in DOMAIN spans'
             /\ spans'[frames'[Len(frames')].span].parent # NoParent
             /\ spans'[frames'[Len(frames')].span].parent.trace
                    = CarrierOf(Head(queue).headers).trace
      ]_vars

\* C15: every dispatch of a task that is not ignored starts exactly one span
\* named "PUBLISH <task name>" and injects its context into the outgoing
\* headers; the span is a child of the current span when there is one and a
\* new trace root when the Active-Span Context is empty.
C15_DispatchStartsPublishSpan ==
    (/\ last.op = "apply_async"
     /\ is_component_enabled("celery")
     /\ last.argsIn[1] \notin IgnoredTasks) =>
        /\ last.traced
        /\ last.span \in DOMAIN spans
        /\ {id \in DOMAIN spans : spans[id].name[1] = "PUBLISH"} = {last.span}
        /\ spans[last.span].name = <<"PUBLISH", last.argsIn[1]>>
        /\ CarrierOf(last.argsOut[2].headers) = ContextOf(spans, last.span)
        /\ IF last.before = <<>>
           THEN /\ spans[last.span].parent = NoParent
                /\ spans[last.span].trace = last.span
           ELSE spans[last.span].parent.span = last.before[Len(last.before)]

\* the adapter calls that inject a context into an outgoing carrier
InjectingOps == {"send", "apply_async", "send_sync", "send_oneway", "send_async"}

\* the carrier of an outgoing call: the request's headers, the dispatch
\* options' headers, the message's properties
OutgoingCarrier(op, args) ==
    CASE op = "send"        -> args[1].headers
      [] op = "apply_async" -> args[2].headers
      [] OTHER              -> args[2].properties

\* C16: when tracer.inject raises during a traced HTTP send, Celery dispatch
\* or RocketMQ send, the failure does not reach the caller: the underlying
\* call is invoked exactly once, the outgoing headers / properties get no
\* trace entry, the caller receives the underlying call's own result or
\* exception, and the local span is created and finished exactly once (for
\* an asynchronous send: by the completion callback of that send).
C16_InjectFailureContained ==
    /\ (Fails("inject") /\ last.op \in InjectingOps /\ last.traced) =>
           /\ last.calls = 1
           /\ last.ret = last.under.result
           /\ last.raised = last.under.exc
           /\ OutgoingCarrier(last.op, last.argsOut)
                  = OutgoingCarrier(last.op, last.argsIn)
           /\ last.span \in DOMAIN spans
           /\ (last.op # "send_async" /\ last.under.kind \in {"ok", "raise"})
                  => spans[last.span].finished = 1
           /\ (last.op = "send_async" /\ last.under.kind = "raise")
                  => spans[last.span].finished = 1
    /\ (Fails("inject") /\ last.op = "traced_callback" /\ last.own # NoSpan) =>
           /\ last.span = last.own
           /\ spans[last.own].finished = 1
    /\ Fails("inject") => \A id \in DOMAIN spans : spans[id].finished <= 1

\* C17: when span.set_tag or span.log_kv raises, before or after the
\* underlying call, the caller of the database, Redis, HTTP and RocketMQ
\* adapters observes no difference: the underlying call is made exactly once
\* and the caller receives exactly its return value or exactly its
\* exception, never a tracing exception.
C17_TagFailureInvisible ==
    (/\ tracer \in TagFaults
     /\ last.op \in SyncOps \cup {"send_sync", "send_oneway", "consume"}
     /\ last.traced) =>
        /\ last.calls = 1
        /\ last.ret = last.under.result
        /\ last.raised = last.under.exc
        /\ last.raised # TracerError

\* the entry points whose underlying call is the caller's business call
BusinessOps ==
    SyncOps \cup {"apply_async", "send_sync", "send_oneway", "send_async",
                  "consume"}

\* C18: if initialize_global_tracer raises or tracer.start_span raises,
\* every adapter degrades to pass-through: the underlying call (SQL execute,
\* Redis command, HTTP send, apply_async, RocketMQ send, consume callback)
\* is still invoked exactly once and its result or exception reaches the
\* caller unchanged.
C18_TracerDownIsPassThrough ==
    (tracer \in TracerDown /\ last.op \in BusinessOps) =>
        /\ last.calls = 1
        /\ last.ret = last.under.result
        /\ last.raised = last.under.exc

\* a carrier from which no parent can be had: it is absent or empty, it has
\* no trace entry or a malformed one, or tracer.extract raises
YieldsNoParent(carrier) ==
    \/ Fails("extract")
    \/ carrier.state # "dict"
    \/ TRACE_ID_HEADER \notin DOMAIN carrier.entries
    \/ carrier.entries[TRACE_ID_HEADER] = Malformed

\* the task execution or consume callback a step has just entered
Entered == frames'[Len(frames')]

\* C19: on the consumer side (task_prerun, _trace_consume_message) an
\* absent, empty or malformed carrier, or a tracer.extract that raises,
\* yields no parent: the handler does not raise, the EXECUTE / RECEIVE span
\* is started as a new trace root, and the task / the user's callback runs,
\* once, its outcome reaching the caller unchanged.
C19_NoParentFromBadCarrier ==
    [][/\ last'.op # "task_prerun"
       /\ (last'.op = "consume" /\ last.op = "none") =>
              /\ last'.calls = 1
              /\ last'.ret = last'.under.result
              /\ last'.raised = last'.under.exc
       /\ (/\ Len(frames') > Len(frames)
           /\ Entered.kind \in {"task", "consume"}
           /\ IF Entered.kind = "task"
              THEN _should_trace_task(Entered.task)
              ELSE _should_trace_topic(MsgAttrs[Entered.msg.msg].topic)
           /\ YieldsNoParent(FrameCarrier(Entered)))
          => /\ Entered.span \in DOMAIN spans'
             /\ spans'[Entered.span].name[1] =
                    (IF Entered.kind = "task" THEN "EXECUTE" ELSE "RECEIVE")
             /\ spans'[Entered.span].parent = NoParent
             /\ spans'[Entered.span].trace = Entered.span
             /\ spans'[Entered.span].finished = 0
             /\ get_current_span' = Entered.span
      ]_vars

\* tracer.extract raises; a message that carries a well-formed span context
\* has been consumed: its RECEIVE span is a trace root and the user's callback
\* has run
C19_Witness ==
    /\ Fails("extract")
    /\ last.op = "consume"
    /\ last.traced
    /\ last.calls = 1
    /\ CarrierOf(last.argsIn[1].properties) \notin {NoParent, Malformed}
    /\ spans[last.span].parent = NoParent

\* C20: in the completion callback of an asynchronous RocketMQ send the span
\* is tagged failed (send_status = "failed", error = true) exactly when the
\* broker's response reports a failure (status # 0); a successful response
\* (status = 0) never puts an error tag on the span.
C20_FailedExactlyOnFailure ==
    (/\ last.op = "traced_callback"
     /\ last.span # NoSpan
     /\ last.span \in DOMAIN spans) =>
        LET failed == last.argsIn[1].status # 0
            tags   == spans[last.span].tags
        IN  /\ ("error" \in DOMAIN tags) = failed
            /\ ("rocketmq.send_status" \in DOMAIN tags
                   /\ tags["rocketmq.send_status"] = Str("failed")) = failed

\* C21: when the underlying call of a traced database, Redis, HTTP or RocketMQ
\* call is cancelled or interrupted (it unwinds with a BaseException that is
\* not an Exception), the adapter still finishes the span exactly once, tags
\* it as an error, passes the cancellation on and leaves the Active-Span
\* Context as it was; the RocketMQ sends are included
C21_CancelledFinishedAndTagged ==
    (last.op \in RaisingOps /\ last.traced /\ last.under.kind = "cancel") =>
        /\ spans[last.span].finished = 1
        /\ HasTag(spans, last.span, "error")
        /\ last.raised = Cancellation
        /\ ctx = last.before

\* C22: a function wrapped by enabled_tracing is transparent: every call of
\* the wrapped function calls func exactly once with exactly the caller's
\* arguments, returns what func returned and raises what func raised, also
\* when name_generator or span_processor fails
C22_WrapIsTransparent ==
    \A u \in DOMAIN units :
        units[u].done.op = "_call" =>
            /\ units[u].done.calls = 1
            /\ units[u].done.argsOut = units[u].done.argsIn
            /\ units[u].done.ret = units[u].done.under.result
            /\ units[u].done.raised = units[u].done.under.exc

\* C23: when a call of a wrapped function has completed, by return or by
\* exception and whether or not span_processor or the serialisation of the
\* context raised, tracing.trace_id is what it was immediately before the
\* call; nested calls restore it in LIFO order
C23_TraceIdRestored ==
    \A u \in DOMAIN units :
        units[u].done.op = "_call" => trace_id = units[u].done.before

\* C24: the current-span state of the wrap helper is isolated per thread: when
\* two threads run wrapped functions at the same time, under every
\* interleaving no thread's span is the parent of a span of the other thread,
\* and once both are back in no wrapped call tracing.trace_id is what it was
\* before either call began
C24_UnitsIsolated ==
    /\ \A u, v \in DOMAIN units :
           u # v =>
               \A i \in DOMAIN units[u].stack, j \in DOMAIN units[v].stack :
                   spans[units[u].stack[i].span].parent.span
                       # units[v].stack[j].span
    /\ (\A u \in DOMAIN units : units[u].stack = <<>>) => trace_id = NoTraceId

\* C25: a traced Redis command issued on a connected connection of the class
\* RedisInstrumentation.install puts in place passes through the adapter
\* exactly once: exactly one span is opened, the underlying command is
\* executed exactly once, and the call ends with what the command returned or
\* raised
C25_OnePassPerCommand ==
    [][(last'.op = "TracedConnection.execute_command" /\ last'.traced) =>
          LET before == Flush(spans)
          IN  /\ Cardinality(DOMAIN spans' \ DOMAIN before) = 1
              /\ last'.calls = 1
              /\ last'.raised = last'.under.exc]_vars

\* the spans whose parent is the span that was current when they were started;
\* a consume or task span takes its parent from a carrier instead
StartedUnderCurrent ==
    {id \in DOMAIN spans : spans[id].name[1] \notin {"RECEIVE", "EXECUTE"}}

\* C26: nested spans finish in LIFO order: a span started while a span S was
\* current, and so created as a child of S, is finished before S is; this
\* includes the SEND span of an asynchronous send made inside a consume
\* callback
C26_ChildrenFinishFirst ==
    \A id \in DOMAIN spans :
        spans[id].finished > 0 =>
            \A child \in StartedUnderCurrent :
                spans[child].parent.span = id => spans[child].finished > 0

\* the unit is inside a traced consume callback or a traced task execution
InsideTraced ==
    /\ Len(frames) > 0
    /\ Top.kind \in {"consume", "task"}
    /\ Top.span # NoSpan

\* the entry points whose span takes its parent from the Active-Span Context
NestingOps ==
    SyncOps \cup {"send_sync", "send_oneway", "send_async", "apply_async"}

\* C27: during a traced consume callback and during a traced task execution
\* the RECEIVE / EXECUTE span is the current span, and the span of every
\* database, Redis, HTTP, PUBLISH or SEND call made inside is its child; when
\* the callback or the task is over, by return or by exception, the current
\* span is the one that was current before it began
C27_CurrentSpanIsParent ==
    /\ InsideTraced => get_current_span = Top.span
    /\ (InsideTraced /\ last.op \in NestingOps /\ last.traced) =>
           /\ spans[last.span].parent = ContextOf(spans, Top.span)
           /\ spans[last.span].trace = spans[Top.span].trace
    /\ (last.op \in {"consume", "task"} /\ last.traced
        /\ last.raised # TracerError) =>
           /\ ctx = last.before
           /\ \A i \in DOMAIN ctx : ctx[i] # last.span

\* a database call made inside a traced task execution has returned: its
\* span is a child of the EXECUTE span
C27_Witness ==
    /\ InsideTraced
    /\ Top.kind = "task"
    /\ last.op = "execute"
    /\ last.traced
    /\ spans[last.span].parent.span = Top.span

\* C28: when the underlying send of a traced outbound HTTP request returns a
\* response, the span carries the response's status code before it is
\* finished, and it carries error = true exactly when the status code is 400
\* or more
C28_StatusCodeTagged ==
    (last.op = "send" /\ last.traced /\ last.under.kind = "ok") =>
        /\ HasTag(spans, last.span, "http.status_code")
        /\ spans[last.span].tags["http.status_code"]
               = Num(last.under.result.status_code)
        /\ spans[last.span].late = 0
        /\ HasTag(spans, last.span, "error")
               <=> last.under.result.status_code >= 400

\* C29: install / uninstall is a round trip for the database and the Redis
\* instrumentation: after any sequence of install and uninstall calls that ends
\* with uninstall, BaseDatabaseWrapper.make_cursor (for Redis:
\* redis.connection.Connection and redis.Connection) is the original,
\* un-instrumented one, also when install was called more than once
C29_UninstallRestoresOriginal ==
    /\ patches.op = <<"uninstall", "database">> =>
           patches.make_cursor = Original
    /\ patches.op = <<"uninstall", "redis">> =>
           /\ patches.Connection = Original
           /\ patches.redis_Connection = Original

\* C30: installation is idempotent and gated by the configuration: after any
\* number of install calls of the Celery, RocketMQ and HTTP instrumentation
\* each signal has the handler connected at most once and each patched method
\* (Task.apply_async, Producer.send_sync / send_async / send_oneway,
\* PushConsumer.subscribe, requests.Session.__init__) is one wrapper around
\* the original; with the component disabled, install patches nothing
C30_InstallIdempotentAndGated ==
    /\ \A s \in CelerySignals : patches.receivers[s] <= 1
    /\ \A attr \in {patches.apply_async, patches.send_sync, patches.send_async,
                    patches.send_oneway, patches.subscribe,
                    patches.Session_init} :
           Len(attr.chain) <= 1
    /\ ~is_component_enabled("celery") =>
           /\ patches.apply_async = Original
           /\ \A s \in CelerySignals : patches.receivers[s] = 0
    /\ ~is_component_enabled("rocketmq") =>
           /\ patches.send_sync = Original
           /\ patches.send_async = Original
           /\ patches.send_oneway = Original
           /\ patches.subscribe = Original
    /\ ~is_component_enabled("http_requests") =>
           patches.Session_init = Original

\* C31: no adapter sets a tag or logs an event on a span after that span has
\* been finished; for an asynchronous RocketMQ send this holds under every
\* interleaving of the send call returning and the completion callback
\* running, the callback running before the send call returns included
C31_NoWriteAfterFinish ==
    \A id \in DOMAIN spans : spans[id].late = 0

\* C32: a Celery task execution that failed (task_failure fired between
\* task_prerun and task_postrun) has, at the moment its EXECUTE span is
\* finished, error = true and celery.state = "FAILURE" on the span, whatever
\* state argument task_postrun is given (none included); a retried execution
\* is finished with celery.state = "RETRY", never "SUCCESS"
C32_FinishedWithItsOutcome ==
    [][(/\ Len(frames) > 0
        /\ Top.kind = "task"
        /\ Top.span # NoSpan
        /\ last'.op = "task"
        /\ spans'[Top.span].finished > spans[Top.span].finished) =>
           LET tags == spans'[Top.span].tags
           IN  /\ Top.phase = "FAILURE" =>
                      /\ HasTag(spans', Top.span, "error")
                      /\ tags["error"] = Bool(TRUE)
                      /\ HasTag(spans', Top.span, "celery.state")
                      /\ tags["celery.state"] = Str("FAILURE")
               /\ Top.phase = "RETRY" =>
                      /\ HasTag(spans', Top.span, "celery.state")
                      /\ tags["celery.state"] = Str("RETRY")]_vars

\* the text contains one of the listed skip patterns, in any letter case
ContainsSkipPattern(sql) ==
    \E pattern \in skip_patterns : Contains(upper(pattern), upper(sql))

\* C33: _should_trace_query skips system queries: for every SQL text that
\* contains a listed skip pattern ("SELECT 1", "SHOW TABLES", "DESCRIBE ",
\* "information_schema", "pg_") in any letter case it returns false and
\* execute / executemany create no span; for every other SQL text, with
\* database enabled, it returns true
C33_SystemQueriesSkipped ==
    last.op \in {"execute", "executemany"} =>
        LET sql == SqlText[last.argsIn[1]]
        IN  /\ ContainsSkipPattern(sql) =>
                   /\ ~_should_trace_query(sql)
                   /\ ~last.traced
                   /\ last.span = NoSpan
            /\ (~ContainsSkipPattern(sql) /\ is_component_enabled("database"))
                   => /\ _should_trace_query(sql)
                      /\ last.traced

\* C34: the slow flag is applied to every database call alike: a traced
\* execute or executemany that returns normally carries a duration tag, and
\* its span is tagged db.slow_query = true exactly when the measured duration
\* in milliseconds exceeds slow_query_threshold (100 unless configured)
C34_SlowFlagUniform ==
    (/\ last.op \in {"execute", "executemany"}
     /\ last.traced
     /\ last.under.kind = "ok"
     /\ last.raised = NoExc
     /\ last.span \in DOMAIN spans) =>
        LET tags == spans[last.span].tags
        IN  /\ HasTag(spans, last.span, "db.duration_ms")
            /\ (/\ HasTag(spans, last.span, "db.slow_query")
                /\ tags["db.slow_query"] = Bool(TRUE))
                   = (tags["db.duration_ms"].n > slow_query_threshold)

====
